---- MODULE Spec2Model ----
(***************************************************************************)
(* Model of the aztec-mcp-server repository mirror: the repository          *)
(* registry (src/src/repos/config.ts), the clone/update engine              *)
(* (src/src/utils/git.ts) and the sync orchestrator                         *)
(* (src/src/tools/sync.ts).                                                 *)
(*                                                                          *)
(* JavaScript strings are sequences of one-character strings, so that       *)
(* includes, replace, toLowerCase, join and template literals are computed  *)
(* character by character, as the program computes them.                   *)
(***************************************************************************)
EXTENDS Integers, Sequences, FiniteSets, TLC

VARIABLES baseRepos, aztecRepos, inputs, disk, sync, ret, lastCall, prevCall, nSyncs, nFails, api

vars == <<baseRepos, aztecRepos, inputs, disk, sync, ret, lastCall, prevCall, nSyncs, nFails, api>>

-----------------------------------------------------------------------------
(* Bounds of the model *)

\* number of syncRepos calls in one behaviour of Spec
MaxSyncs == 2
\* number of cloneRepo calls in one behaviour in which a VCS step fails
MaxFails == 1
\* the same two bounds for the batch specification SpecBatch
BatchSyncs == 1
BatchFails == 1

-----------------------------------------------------------------------------
(* String literals of the source *)
NAME_AZTEC_PACKAGES == <<"a", "z", "t", "e", "c", "-", "p", "a", "c", "k", "a", "g", "e", "s">>
NAME_AZTEC_EXAMPLES == <<"a", "z", "t", "e", "c", "-", "e", "x", "a", "m", "p", "l", "e", "s">>
NAME_AZTEC_STARTER == <<"a", "z", "t", "e", "c", "-", "s", "t", "a", "r", "t", "e", "r">>
NAME_NOIR == <<"n", "o", "i", "r">>
NAME_NOIR_EXAMPLES == <<"n", "o", "i", "r", "-", "e", "x", "a", "m", "p", "l", "e", "s">>
DEFAULT_AZTEC_VERSION == <<"v", "3", ".", "0", ".", "0", "-", "d", "e", "v", "n", "e", "t", ".", "6", "-", "p", "a", "t", "c", "h", ".", "1">>
REPOS_DIR == <<"/", "t", "m", "p", "/", "t", "e", "s", "t", "-", "r", "e", "p", "o", "s", "/", "r", "e", "p", "o", "s">>
T_Updated == <<"U", "p", "d", "a", "t", "e", "d", " ">>

(* Values of the environment: what a failing VCS step reports, the version
   overrides and filter names a caller passes, the commit a pin lookup finds *)
MSG_GIT == <<"f", "a", "t", "a", "l", ":", " ", "u", "n", "a", "b", "l", "e", " ", "t", "o", " ", "a", "c", "c", "e", "s", "s", " ", "r", "e", "m", "o", "t", "e">>
V_2 == <<"v", "2", ".", "0", ".", "0">>
V_ERR == <<"v", "0", ".", "1", ".", "0", "-", "e", "r", "r", "o", "r", "-", "f", "i", "x">>
PIN_COMMIT == <<"a", "b", "c", "1", "2", "3", "d", "e", "a", "d", "b", "e", "e", "f">>

-----------------------------------------------------------------------------
(* JavaScript values and string operations *)

\* the value undefined (also: null); a one-element tuple that is no string
Undefined == << "<undefined>" >>

\* undefined where an array of strings is expected
UndefinedArray == << Undefined >>

\* truthiness of a string-or-undefined value: undefined and "" are falsy
Truthy(x) == x # Undefined /\ x # <<>>

\* a || b
OrElse(a, b) == IF Truthy(a) THEN a ELSE b

\* `${x}` of a template literal
Interp(x) == IF x = Undefined THEN <<"u", "n", "d", "e", "f", "i", "n", "e", "d">> ELSE x

\* String.prototype.includes
Includes(s, pat) ==
    \E i \in 0..(Len(s) - Len(pat)) : SubSeq(s, i + 1, i + Len(pat)) = pat

\* String.prototype.indexOf; -1 when absent
IndexOf(s, pat) ==
    IF Includes(s, pat)
    THEN CHOOSE i \in 0..(Len(s) - Len(pat)) :
            /\ SubSeq(s, i + 1, i + Len(pat)) = pat
            /\ \A j \in 0..(i - 1) : SubSeq(s, j + 1, j + Len(pat)) # pat
    ELSE -1

\* String.prototype.replace with a string pattern: the first occurrence only
Replace(s, pat, rep) ==
    LET i == IndexOf(s, pat) IN
    IF i < 0 THEN s
    ELSE SubSeq(s, 1, i) \o rep \o SubSeq(s, i + Len(pat) + 1, Len(s))

UpperCase == <<"A", "B", "C", "D", "E", "F", "G", "H", "I", "J", "K", "L", "M",
               "N", "O", "P", "Q", "R", "S", "T", "U", "V", "W", "X", "Y", "Z">>
LowerCase == <<"a", "b", "c", "d", "e", "f", "g", "h", "i", "j", "k", "l", "m",
               "n", "o", "p", "q", "r", "s", "t", "u", "v", "w", "x", "y", "z">>

LowerChar(c) ==
    IF \E k \in 1..26 : UpperCase[k] = c
    THEN LowerCase[CHOOSE k \in 1..26 : UpperCase[k] = c]
    ELSE c

\* String.prototype.toLowerCase
ToLowerCase(s) == [i \in 1..Len(s) |-> LowerChar(s[i])]

\* Array.prototype.join
RECURSIVE Join(_, _)
Join(parts, sep) ==
    IF Len(parts) = 0 THEN <<>>
    ELSE IF Len(parts) = 1 THEN parts[1]
    ELSE parts[1] \o sep \o Join(Tail(parts), sep)

Digits == <<"0", "1", "2", "3", "4", "5", "6", "7", "8", "9">>

\* String(n) for a natural number
RECURSIVE NumToString(_)
NumToString(n) == IF n < 10 THEN <<Digits[n + 1]>>
                  ELSE NumToString(n \div 10) \o <<Digits[(n % 10) + 1]>>

\* Array.prototype.includes
ArrayIncludes(arr, x) == \E i \in 1..Len(arr) : arr[i] = x

-----------------------------------------------------------------------------
(* Repository registry: src/src/repos/config.ts *)

\* RepoConfig; description and searchPatterns are display data and left out.
\* A property the object literal does not set reads as undefined.
RepoConfig(name, url, branch, sparse) ==
    [name |-> name, url |-> url, branch |-> branch, tag |-> Undefined,
     commit |-> Undefined, sparse |-> sparse]

BASE_REPOS ==
    << RepoConfig(NAME_AZTEC_PACKAGES, <<"h", "t", "t", "p", "s", ":", "/", "/", "g", "i", "t", "h", "u", "b", ".", "c", "o", "m", "/", "A", "z", "t", "e", "c", "P", "r", "o", "t", "o", "c", "o", "l", "/", "a", "z", "t", "e", "c", "-", "p", "a", "c", "k", "a", "g", "e", "s">>, Undefined,
                  <<<<"d", "o", "c", "s", "/", "d", "o", "c", "s">>, <<"n", "o", "i", "r", "-", "p", "r", "o", "j", "e", "c", "t", "s", "/", "a", "z", "t", "e", "c", "-", "n", "r">>, <<"n", "o", "i", "r", "-", "p", "r", "o", "j", "e", "c", "t", "s", "/", "n", "o", "i", "r", "-", "c", "o", "n", "t", "r", "a", "c", "t", "s">>, <<"y", "a", "r", "n", "-", "p", "r", "o", "j", "e", "c", "t">>, <<"b", "a", "r", "r", "e", "t", "e", "n", "b", "e", "r", "g", "/", "t", "s", "/", "s", "r", "c">>>>),
       RepoConfig(NAME_AZTEC_EXAMPLES, <<"h", "t", "t", "p", "s", ":", "/", "/", "g", "i", "t", "h", "u", "b", ".", "c", "o", "m", "/", "A", "z", "t", "e", "c", "P", "r", "o", "t", "o", "c", "o", "l", "/", "a", "z", "t", "e", "c", "-", "e", "x", "a", "m", "p", "l", "e", "s">>, Undefined, UndefinedArray),
       RepoConfig(NAME_AZTEC_STARTER, <<"h", "t", "t", "p", "s", ":", "/", "/", "g", "i", "t", "h", "u", "b", ".", "c", "o", "m", "/", "A", "z", "t", "e", "c", "P", "r", "o", "t", "o", "c", "o", "l", "/", "a", "z", "t", "e", "c", "-", "s", "t", "a", "r", "t", "e", "r">>, Undefined, UndefinedArray),
       RepoConfig(NAME_NOIR, <<"h", "t", "t", "p", "s", ":", "/", "/", "g", "i", "t", "h", "u", "b", ".", "c", "o", "m", "/", "n", "o", "i", "r", "-", "l", "a", "n", "g", "/", "n", "o", "i", "r">>, <<"m", "a", "s", "t", "e", "r">>, <<<<"d", "o", "c", "s">>, <<"n", "o", "i", "r", "_", "s", "t", "d", "l", "i", "b">>, <<"t", "o", "o", "l", "i", "n", "g">>>>),
       RepoConfig(NAME_NOIR_EXAMPLES, <<"h", "t", "t", "p", "s", ":", "/", "/", "g", "i", "t", "h", "u", "b", ".", "c", "o", "m", "/", "n", "o", "i", "r", "-", "l", "a", "n", "g", "/", "n", "o", "i", "r", "-", "e", "x", "a", "m", "p", "l", "e", "s">>, <<"m", "a", "s", "t", "e", "r">>, UndefinedArray) >>

\* getAztecRepos stamping every descriptor, whatever its url
StampReposEverywhere(base, version) ==
    LET tag == OrElse(version, DEFAULT_AZTEC_VERSION) IN
    [i \in 1..Len(base) |-> [base[i] EXCEPT !.tag = tag]]

\* getAztecRepos over a base list
StampRepos(base, version) ==
    LET tag == OrElse(version, DEFAULT_AZTEC_VERSION) IN
    [i \in 1..Len(base) |->
        [base[i] EXCEPT !.tag = IF Includes(base[i].url, <<"A", "z", "t", "e", "c", "P", "r", "o", "t", "o", "c", "o", "l">>)
                                THEN tag ELSE Undefined]]

\* lines 97-105
getAztecRepos(version) == StampRepos(baseRepos, version)

\* Object.assign(repo, props): repo itself with props written into it
ObjectAssign(repo, props) ==
    [k \in DOMAIN repo |-> IF k \in DOMAIN props THEN props[k] ELSE repo[k]]

\* what evaluating the object literal { ...repo, props } leaves of repo: the
\* spread copies the properties of repo into a new object and writes none
SpreadSource(repo, props) == repo

\* lines 100-104: the base descriptors after the map of getAztecRepos
MapSource(base, version) ==
    [i \in 1..Len(base) |->
        SpreadSource(base[i], [tag |-> StampRepos(base, version)[i].tag])]

\* line 111: the array built when the module is loaded
AZTEC_REPOS == aztecRepos

RepoNames == {BASE_REPOS[i].name : i \in 1..Len(BASE_REPOS)}

-----------------------------------------------------------------------------
(* Clone/update engine: src/src/utils/git.ts *)

(* The checkout directory of one repository, REPOS_DIR/name:
     dir   something exists at the path         (existsSync(repoPath))
     git   the path holds VCS metadata           (existsSync(repoPath/.git))
     head  what the working tree is checked out at:
           kind "none"    nothing checked out (after clone --no-checkout)
                "tag"     the tag ref
                "branch"  the tip of branch ref, as cloned with -b
                "default" the remote's default head (clone without -b,
                          or reset --hard origin/HEAD)
                "commit"  the commit ref                                    *)
NoHead == [kind |-> "none", ref |-> Undefined]
Absent == [dir |-> FALSE, git |-> FALSE, head |-> NoHead]
HeadAt(kind, ref) == [kind |-> kind, ref |-> ref]

\* existsSync(join(getRepoPath(repoName), ".git")); a name that is no
\* configured repository has no directory below REPOS_DIR
isRepoCloned(d, repoName) == repoName \in DOMAIN d /\ d[repoName].git

(* One VCS or filesystem operation, as the program issues it:
   op, the literal flags, the ref or refspec named, the paths named *)
GitOp(op, flags, ref, paths) == [op |-> op, flags |-> flags, ref |-> ref, paths |-> paths]

(* The result of a call: the disk after it; how it ended ("ok": returned
   after its last VCS step succeeded, "failed": returned after the VCS gave
   up, "threw": raised an Error); the string returned, or the message of the
   Error raised; the operations issued; and which path of cloneRepo ran
   ("update" or "clone") *)
Outcome(d, end, value, ops, path) ==
    [disk |-> d, end |-> end, value |-> value, ops |-> ops, path |-> path]

(* Which VCS steps of a call fail is the environment's choice: fail is the
   set of positions, in the order the call issues them, of the steps that
   fail.  A failing step throws an Error whose message is MSG_GIT. *)
FailChoices == {{}, {1}, {2}, {3}, {4}, {1, 3}, {2, 3}}

\* `${pullError}` of an Error: Error.prototype.toString
ErrorToString(message) == <<"E", "r", "r", "o", "r", ":", " ">> \o message

\* updateRepo without the inner catch of lines 132-134
updateRepoRethrows(d, repoName, fail) ==
    IF ~isRepoCloned(d, repoName)
    THEN Outcome(d, "threw", <<"R", "e", "p", "o", "s", "i", "t", "o", "r", "y", " ">> \o repoName \o <<" ", "i", "s", " ", "n", "o", "t", " ", "c", "l", "o", "n", "e", "d">>, <<>>, "update")
    ELSE
      LET fetch == GitOp("fetch", <<"--depth=1">>, Undefined, <<>>)
          reset == GitOp("reset", <<"--hard">>, <<"o","r","i","g","i","n","/","H","E","A","D">>, <<>>)
          pull  == GitOp("pull", <<>>, Undefined, <<>>)
          atHead == [d EXCEPT ![repoName].head = HeadAt("default", Undefined)]
      IN
      IF 1 \notin fail /\ 2 \notin fail
      THEN Outcome(atHead, "ok", T_Updated \o repoName, <<fetch, reset>>, "update")
      ELSE
        LET tried == IF 1 \in fail THEN <<fetch, pull>> ELSE <<fetch, reset, pull>> IN
        IF 3 \notin fail
        THEN Outcome(d, "ok", T_Updated \o repoName, tried, "update")
        ELSE Outcome(d, "threw", MSG_GIT, tried, "update")

\* lines 114-136
updateRepo(d, repoName, fail) ==
    IF ~isRepoCloned(d, repoName)
    THEN Outcome(d, "threw", <<"R", "e", "p", "o", "s", "i", "t", "o", "r", "y", " ">> \o repoName \o <<" ", "i", "s", " ", "n", "o", "t", " ", "c", "l", "o", "n", "e", "d">>, <<>>, "update")
    ELSE
      LET fetch == GitOp("fetch", <<"--depth=1">>, Undefined, <<>>)
          reset == GitOp("reset", <<"--hard">>, <<"o","r","i","g","i","n","/","H","E","A","D">>, <<>>)
          pull  == GitOp("pull", <<>>, Undefined, <<>>)
          atHead == [d EXCEPT ![repoName].head = HeadAt("default", Undefined)]
      IN
      IF 1 \notin fail /\ 2 \notin fail
      THEN Outcome(atHead, "ok", T_Updated \o repoName, <<fetch, reset>>, "update")
      ELSE
        LET tried == IF 1 \in fail THEN <<fetch, pull>> ELSE <<fetch, reset, pull>> IN
        IF 3 \notin fail
        THEN Outcome(d, "ok", T_Updated \o repoName, tried, "update")
        ELSE Outcome(d, "failed",
                     <<"F", "a", "i", "l", "e", "d", " ", "t", "o", " ", "u", "p", "d", "a", "t", "e", " ">> \o repoName \o <<":", " ">> \o ErrorToString(MSG_GIT),
                     tried, "update")

\* refs/tags/${tag}:refs/tags/${tag}
TagRefspec(tag) ==
    LET r == <<"r","e","f","s","/","t","a","g","s","/">> \o Interp(tag) IN r \o <<":">> \o r

(* One step of the clone path: the operation issued and the head of the
   checkout once the step has succeeded *)
Step(op, head) == [op |-> op, head |-> head]

\* CloneSteps with the tag fetched before the sparse-checkout paths are set
CloneStepsFetchFirst(config) ==
    LET isSparse == config.sparse # UndefinedArray /\ Len(config.sparse) > 0
        bflag    == IF Truthy(config.branch) THEN <<"-b">> ELSE <<>>
        bref     == IF Truthy(config.branch) THEN config.branch ELSE Undefined
        bhead    == IF Truthy(config.branch) THEN HeadAt("branch", config.branch)
                                              ELSE HeadAt("default", Undefined)
        set      == GitOp("sparse-checkout set", <<>>, Undefined, config.sparse)
        fetchTag == GitOp("fetch", <<"--depth=1", "origin">>, TagRefspec(config.tag), <<>>)
        checkout == GitOp("checkout", <<>>, config.tag, <<>>)
    IN
    IF isSparse
    THEN IF Truthy(config.tag)
         THEN << Step(GitOp("clone", <<"--filter=blob:none", "--sparse", "--no-checkout">>,
                            Undefined, <<>>), NoHead),
                 Step(fetchTag, NoHead),
                 Step(set, NoHead),
                 Step(checkout, HeadAt("tag", config.tag)) >>
         ELSE << Step(GitOp("clone", <<"--filter=blob:none", "--sparse", "--depth=1">> \o bflag,
                            bref, <<>>), bhead),
                 Step(set, bhead) >>
    ELSE IF Truthy(config.tag)
         THEN << Step(GitOp("clone", <<"--no-checkout">>, Undefined, <<>>), NoHead),
                 Step(fetchTag, NoHead),
                 Step(checkout, HeadAt("tag", config.tag)) >>
         ELSE << Step(GitOp("clone", <<"--depth=1">> \o bflag, bref, <<>>), bhead) >>

\* CloneSteps taking an empty sparse list for a sparse descriptor
CloneStepsSparseWhenPresent(config) ==
    LET isSparse == config.sparse # UndefinedArray
        bflag    == IF Truthy(config.branch) THEN <<"-b">> ELSE <<>>
        bref     == IF Truthy(config.branch) THEN config.branch ELSE Undefined
        bhead    == IF Truthy(config.branch) THEN HeadAt("branch", config.branch)
                                              ELSE HeadAt("default", Undefined)
        set      == GitOp("sparse-checkout set", <<>>, Undefined, config.sparse)
        fetchTag == GitOp("fetch", <<"--depth=1", "origin">>, TagRefspec(config.tag), <<>>)
        checkout == GitOp("checkout", <<>>, config.tag, <<>>)
    IN
    IF isSparse
    THEN IF Truthy(config.tag)
         THEN << Step(GitOp("clone", <<"--filter=blob:none", "--sparse", "--no-checkout">>,
                            Undefined, <<>>), NoHead),
                 Step(set, NoHead),
                 Step(fetchTag, NoHead),
                 Step(checkout, HeadAt("tag", config.tag)) >>
         ELSE << Step(GitOp("clone", <<"--filter=blob:none", "--sparse", "--depth=1">> \o bflag,
                            bref, <<>>), bhead),
                 Step(set, bhead) >>
    ELSE IF Truthy(config.tag)
         THEN << Step(GitOp("clone", <<"--no-checkout">>, Undefined, <<>>), NoHead),
                 Step(fetchTag, NoHead),
                 Step(checkout, HeadAt("tag", config.tag)) >>
         ELSE << Step(GitOp("clone", <<"--depth=1">> \o bflag, bref, <<>>), bhead) >>

(* The steps of the clone path for config, in the order they are issued *)
CloneSteps(config) ==
    LET isSparse == config.sparse # UndefinedArray /\ Len(config.sparse) > 0
        bflag    == IF Truthy(config.branch) THEN <<"-b">> ELSE <<>>
        bref     == IF Truthy(config.branch) THEN config.branch ELSE Undefined
        bhead    == IF Truthy(config.branch) THEN HeadAt("branch", config.branch)
                                              ELSE HeadAt("default", Undefined)
        set      == GitOp("sparse-checkout set", <<>>, Undefined, config.sparse)
        fetchTag == GitOp("fetch", <<"--depth=1", "origin">>, TagRefspec(config.tag), <<>>)
        checkout == GitOp("checkout", <<>>, config.tag, <<>>)
    IN
    IF isSparse
    THEN IF Truthy(config.tag)
         THEN << Step(GitOp("clone", <<"--filter=blob:none", "--sparse", "--no-checkout">>,
                            Undefined, <<>>), NoHead),
                 Step(set, NoHead),
                 Step(fetchTag, NoHead),
                 Step(checkout, HeadAt("tag", config.tag)) >>
         ELSE << Step(GitOp("clone", <<"--filter=blob:none", "--sparse", "--depth=1">> \o bflag,
                            bref, <<>>), bhead),
                 Step(set, bhead) >>
    ELSE IF Truthy(config.tag)
         THEN << Step(GitOp("clone", <<"--no-checkout">>, Undefined, <<>>), NoHead),
                 Step(fetchTag, NoHead),
                 Step(checkout, HeadAt("tag", config.tag)) >>
         ELSE << Step(GitOp("clone", <<"--depth=1">> \o bflag, bref, <<>>), bhead) >>

\* the string a successful clone returns
ClonedStatus(config) ==
    LET ref     == OrElse(config.tag, config.branch)
        refType == IF Truthy(config.tag) THEN <<"t", "a", "g">> ELSE <<"b", "r", "a", "n", "c", "h">>
        front   == <<"C", "l", "o", "n", "e", "d", " ">> \o config.name \o <<" ", "@", " ">> \o Interp(ref) \o <<" ", "(">> \o refType
    IN
    IF config.sparse # UndefinedArray /\ Len(config.sparse) > 0
    THEN front \o <<",", " ", "s", "p", "a", "r", "s", "e", ":", " ">> \o Join(config.sparse, <<",", " ">>) \o <<")">>
    ELSE front \o <<")">>

\* ClonePath with a cleanup on failure: what the steps built is removed
ClonePathCleansUp(d, config, fail) ==
    LET name    == config.name
        steps   == CloneSteps(config)
        failing == {k \in fail : k <= Len(steps)}
        first   == IF failing = {} THEN Len(steps) + 1
                   ELSE CHOOSE k \in failing : \A j \in failing : k <= j
        issued  == [k \in 1..(IF first > Len(steps) THEN Len(steps) ELSE first) |-> steps[k].op]
        after   == [d EXCEPT ![name] = [dir |-> TRUE, git |-> TRUE,
                                        head |-> steps[Len(steps)].head]]
    IN
    IF first > Len(steps)
    THEN Outcome(after, "ok", ClonedStatus(config), issued, "clone")
    ELSE Outcome([d EXCEPT ![name] = Absent], "threw", MSG_GIT, issued, "clone")

\* lines 59-108: the clone path, on a path that holds no checkout
ClonePath(d, config, fail) ==
    LET name    == config.name
        steps   == CloneSteps(config)
        failing == {k \in fail : k <= Len(steps)}
        first   == IF failing = {} THEN Len(steps) + 1
                   ELSE CHOOSE k \in failing : \A j \in failing : k <= j
        issued  == [k \in 1..(IF first > Len(steps) THEN Len(steps) ELSE first) |-> steps[k].op]
        \* a clone step that fails leaves nothing behind; once it has
        \* succeeded the directory and its metadata exist
        after   == IF first = 1 THEN d
                   ELSE [d EXCEPT ![name] = [dir |-> TRUE, git |-> TRUE,
                                             head |-> steps[first - 1].head]]
    IN
    IF first > Len(steps)
    THEN Outcome(after, "ok", ClonedStatus(config), issued, "clone")
    ELSE Outcome(after, "threw", MSG_GIT, issued, "clone")


\* Removes that does not look at force
RemovesWhenExists(d, config, force) == d[config.name].dir

\* line 50: whether the existing directory is removed
Removes(d, config, force) == force /\ d[config.name].dir


\* cloneRepo without the delegation to updateRepo of lines 54-57
cloneRepoAlwaysClones(d, config, force, fail) ==
    LET name    == config.name
        removed == Removes(d, config, force)
        rm      == IF removed THEN <<GitOp("rmSync", <<"recursive", "force">>, Undefined, <<name>>)>>
                              ELSE <<>>
        d1      == IF removed THEN [d EXCEPT ![name] = Absent] ELSE d
        out     == ClonePath(d1, config, fail)
    IN [out EXCEPT !.ops = rm \o out.ops]

cloneRepo(d, config, force, fail) ==
    LET name    == config.name
        removed == Removes(d, config, force)
        rm      == IF removed THEN <<GitOp("rmSync", <<"recursive", "force">>, Undefined, <<name>>)>>
                              ELSE <<>>
        d1      == IF removed THEN [d EXCEPT ![name] = Absent] ELSE d
        out     == IF isRepoCloned(d1, name) THEN updateRepo(d1, name, fail)
                                             ELSE ClonePath(d1, config, fail)
    IN [out EXCEPT !.ops = rm \o out.ops]

(* getNoirCommitFromAztec: the commit recorded for the embedded noir
   repository in the aztec-packages checkout.  The lookup yields none when
   the checkout is missing; otherwise it lists the tree entry of the
   embedded repository path, and yields the commit the entry records, or
   none when the output has another format or the VCS command errors.  It
   never throws. *)

\* the front of a tree entry of an embedded repository
T_gitlink == <<"1","6","0","0","0","0"," ","c","o","m","m","i","t"," ">>
\* what the tree listing can do: throw, or return this text
LsTree(threw, text) == [threw |-> threw, text |-> text]

LS_GOOD == T_gitlink \o PIN_COMMIT \o <<"\t">> \o <<"n","o","i","r","/","n","o","i","r","-","r","e","p","o">> \o <<"\n">>

LsTreeOutcomes ==
    {LsTree(TRUE, <<>>), LsTree(FALSE, LS_GOOD), LsTree(FALSE, <<"u","n","e","x","p","e","c","t","e","d"," ","o","u","t","p","u","t"," ","f","o","r","m","a","t">>),
     LsTree(FALSE, <<>>)}


\* the hash of a tree entry "160000 commit <hash>...", none for other text
ParseLsTree(text) ==
    IF ~(Len(text) > Len(T_gitlink) /\ SubSeq(text, 1, Len(T_gitlink)) = T_gitlink)
    THEN Undefined
    ELSE LET rest == SubSeq(text, Len(T_gitlink) + 1, Len(text))
             stop == IF \A k \in 1..Len(rest) : rest[k] \in {"0","1","2","3","4","5","6","7","8","9","a","b","c","d","e","f"} THEN Len(rest) + 1
                     ELSE CHOOSE k \in 1..Len(rest) :
                            /\ rest[k] \notin {"0","1","2","3","4","5","6","7","8","9","a","b","c","d","e","f"}
                            /\ \A j \in 1..(k - 1) : rest[j] \in {"0","1","2","3","4","5","6","7","8","9","a","b","c","d","e","f"}
         IN IF stop = 1 THEN Undefined ELSE SubSeq(rest, 1, stop - 1)

getNoirCommitFromAztec(d, listing) ==
    IF ~isRepoCloned(d, NAME_AZTEC_PACKAGES) THEN Undefined
    ELSE IF listing.threw THEN Undefined
    ELSE ParseLsTree(listing.text)

-----------------------------------------------------------------------------
(* Sync orchestrator: src/src/tools/sync.ts *)

None == [none |-> TRUE]

(* The last call a client made of an exported function other than
   syncRepos: the function, how many such calls were made, and the record
   of the call (its arguments, what the environment did, its result) *)
NoCall == [fn |-> "none", n |-> 0, rec |-> None]

(* The locals of the syncRepos call in progress, or of the last one once
   it has returned (pc = "idle"); calls lists the cloneRepo calls made, in
   order: the name passed and how the call ended *)
Idle == [pc |-> "idle", force |-> FALSE, repoNames |-> UndefinedArray, version |-> Undefined,
         effectiveVersion |-> DEFAULT_AZTEC_VERSION, reposToSync |-> <<>>,
         noirCommit |-> Undefined, results |-> <<>>, calls |-> <<>>, i |-> 1]


\* FilterRepos that takes an empty list of names for no filter at all
FilterReposEmptyIsAll(configuredRepos, repoNames) ==
    IF repoNames # UndefinedArray /\ Len(repoNames) > 0
    THEN SelectSeq(configuredRepos, LAMBDA r : ArrayIncludes(repoNames, r.name))
    ELSE configuredRepos

\* reposToSync of syncRepos
FilterRepos(configuredRepos, repoNames) ==
    IF repoNames # UndefinedArray
    THEN SelectSeq(configuredRepos, LAMBDA r : ArrayIncludes(repoNames, r.name))
    ELSE configuredRepos

\* HasAztecPackages that never finds it: the sync goes straight to the pin lookup
HasAztecPackagesNever(reposToSync) == FALSE

\* reposToSync.find((r) => r.name === "aztec-packages") finds one
HasAztecPackages(reposToSync) ==
    \E i \in 1..Len(reposToSync) : reposToSync[i].name = NAME_AZTEC_PACKAGES

\* reposToSync.find((r) => r.name === "aztec-packages"), when it finds one
FindAztecPackages(reposToSync) ==
    reposToSync[CHOOSE i \in 1..Len(reposToSync) :
                   /\ reposToSync[i].name = NAME_AZTEC_PACKAGES
                   /\ \A j \in 1..(i - 1) : reposToSync[j].name # NAME_AZTEC_PACKAGES]

NoirRepos(reposToSync) ==
    SelectSeq(reposToSync, LAMBDA r : Includes(r.url, <<"n", "o", "i", "r", "-", "l", "a", "n", "g">>))


\* OtherRepos without the test on the name: aztec-packages is in both lists
OtherReposKeepsPrimary(reposToSync) ==
    SelectSeq(reposToSync, LAMBDA r : ~Includes(r.url, <<"n", "o", "i", "r", "-", "l", "a", "n", "g">>))

OtherRepos(reposToSync) ==
    SelectSeq(reposToSync, LAMBDA r : r.name # NAME_AZTEC_PACKAGES
                                       /\ ~Includes(r.url, <<"n", "o", "i", "r", "-", "l", "a", "n", "g">>))

\* the descriptor handed to cloneRepo in the noir loop
NoirConfig(config, noirCommit) ==
    IF config.name = NAME_NOIR /\ Truthy(noirCommit)
    THEN [config EXCEPT !.commit = noirCommit, !.branch = Undefined]
    ELSE config

\* lines 77-80: the descriptors of AZTEC_REPOS after noirConfig is built from
\* config, which is one of them when the sync was given no version
OverrideSource(repos, config, version, noirCommit) ==
    [i \in 1..Len(repos) |->
        IF ~Truthy(version) /\ repos[i].name = config.name
              /\ config.name = NAME_NOIR /\ Truthy(noirCommit)
        THEN SpreadSource(repos[i], [commit |-> noirCommit, branch |-> Undefined])
        ELSE repos[i]]

\* the status recorded in the noir loop for a call that returned
FinalStatus(config, noirCommit, status) ==
    IF config.name = NAME_NOIR /\ Truthy(noirCommit)
    THEN Replace(status, <<"(", "b", "r", "a", "n", "c", "h">>, <<"(", "c", "o", "m", "m", "i", "t", " ", "f", "r", "o", "m", " ", "a", "z", "t", "e", "c", "-", "p", "a", "c", "k", "a", "g", "e", "s">>)
    ELSE status

\* `Error: ${error.message}` of the catch blocks
CaughtStatus(message) == <<"E", "r", "r", "o", "r", ":", " ">> \o message

\* the entry pushed to results for one cloneRepo call
ResultEntry(name, out, finalStatus) ==
    [name |-> name, status |-> IF out.end = "threw" THEN CaughtStatus(out.value) ELSE finalStatus]


\* AllSuccess without toLowerCase
AllSuccessCaseSensitive(results) ==
    \A i \in 1..Len(results) : ~Includes(results[i].status, <<"e", "r", "r", "o", "r">>)

\* results.every((r) => !r.status.toLowerCase().includes("error"))
AllSuccess(results) ==
    \A i \in 1..Len(results) : ~Includes(ToLowerCase(results[i].status), <<"e", "r", "r", "o", "r">>)

\* the SyncResult returned after the loops
SyncResult(results, effectiveVersion) ==
    LET allSuccess == AllSuccess(results) IN
    [success |-> allSuccess,
     message |-> IF allSuccess
                 THEN <<"S", "u", "c", "c", "e", "s", "s", "f", "u", "l", "l", "y", " ", "s", "y", "n", "c", "e", "d", " ">> \o NumToString(Len(results)) \o <<" ", "r", "e", "p", "o", "s", "i", "t", "o", "r", "i", "e", "s", " ", "t", "o", " ">> \o REPOS_DIR
                 ELSE <<"S", "o", "m", "e", " ", "r", "e", "p", "o", "s", "i", "t", "o", "r", "i", "e", "s", " ", "f", "a", "i", "l", "e", "d", " ", "t", "o", " ", "s", "y", "n", "c">>,
     version |-> effectiveVersion,
     repos   |-> results]

\* the SyncResult returned when the filtered set is empty
NoMatchResult(effectiveVersion) ==
    [success |-> FALSE, message |-> <<"N", "o", " ", "r", "e", "p", "o", "s", "i", "t", "o", "r", "i", "e", "s", " ", "m", "a", "t", "c", "h", "e", "d", " ", "t", "h", "e", " ", "s", "p", "e", "c", "i", "f", "i", "e", "d", " ", "n", "a", "m", "e", "s">>, version |-> effectiveVersion, repos |-> <<>>]

(* The record of one cloneRepo call: the sync call it belongs to, the
   arguments, the state of the path before it, and its outcome *)
CallRecord(sid, config, force, d, out) ==
    [sid |-> sid, config |-> config, force |-> force,
     hadDir |-> d[config.name].dir, wasCloned |-> d[config.name].git,
     end |-> out.end, value |-> out.value, ops |-> out.ops, path |-> out.path]

\* where syncRepos continues after the pin lookup
AfterPin(reposToSync) ==
    IF Len(NoirRepos(reposToSync)) > 0 THEN "noir"
    ELSE IF Len(OtherRepos(reposToSync)) > 0 THEN "other" ELSE "return"


\* Materialize without the try/catch: an Error raised by cloneRepo ends the
\* call with what was recorded before
MaterializeUncaught(config, passed, fail, pcNext, iNext) ==
    LET out == cloneRepo(disk, passed, sync.force, fail) IN
    /\ fail # {} => nFails < inputs.fails
    /\ nFails' = IF fail # {} THEN nFails + 1 ELSE nFails
    /\ disk' = out.disk
    /\ prevCall' = lastCall
    /\ lastCall' = CallRecord(nSyncs, passed, sync.force, disk, out)
    /\ sync' = IF out.end = "threw"
               THEN [sync EXCEPT !.calls = Append(@, [name |-> passed.name, end |-> out.end]), !.pc = "return"]
               ELSE [sync EXCEPT
                       !.results = Append(@, ResultEntry(config.name, out,
                                            FinalStatus(config, sync.noirCommit, out.value))),
                       !.calls = Append(@, [name |-> passed.name, end |-> out.end]),
                       !.pc = pcNext, !.i = iNext]
    /\ UNCHANGED <<baseRepos, inputs, ret, nSyncs, api>>

\* one awaited cloneRepo call of syncRepos and the push that follows it
Materialize(config, passed, fail, pcNext, iNext) ==
    LET out == cloneRepo(disk, passed, sync.force, fail) IN
    /\ fail # {} => nFails < inputs.fails
    /\ nFails' = IF fail # {} THEN nFails + 1 ELSE nFails
    /\ disk' = out.disk
    /\ prevCall' = lastCall
    /\ lastCall' = CallRecord(nSyncs, passed, sync.force, disk, out)
    /\ sync' = [sync EXCEPT
                  !.results = Append(@, ResultEntry(config.name, out,
                                       FinalStatus(config, sync.noirCommit, out.value))),
                  !.calls = Append(@, [name |-> passed.name, end |-> out.end]),
                  !.pc = pcNext, !.i = iNext]
    /\ UNCHANGED <<baseRepos, inputs, ret, nSyncs, api>>

\* lines 28-48: options, filter, the empty-set return
SyncStart(force, repoNames, version) ==
    LET configuredRepos  == IF Truthy(version) THEN getAztecRepos(version) ELSE AZTEC_REPOS
        effectiveVersion == OrElse(version, DEFAULT_AZTEC_VERSION)
        reposToSync      == FilterRepos(configuredRepos, repoNames)
    IN
    /\ sync.pc = "idle"
    /\ nSyncs < inputs.syncs
    /\ nSyncs' = nSyncs + 1
    /\ sync' = [pc |-> IF Len(reposToSync) = 0 THEN "idle"
                        ELSE IF HasAztecPackages(reposToSync) THEN "aztec" ELSE "pin",
                force |-> force, repoNames |-> repoNames, version |-> version,
                effectiveVersion |-> effectiveVersion,
                reposToSync |-> reposToSync, noirCommit |-> Undefined,
                results |-> <<>>, calls |-> <<>>, i |-> 1]
    /\ ret' = IF Len(reposToSync) = 0 THEN NoMatchResult(effectiveVersion) ELSE None
    /\ baseRepos' = IF Truthy(version) THEN MapSource(baseRepos, version) ELSE baseRepos
    /\ UNCHANGED <<aztecRepos, inputs, disk, lastCall, prevCall, nFails, api>>

\* lines 57-68: aztec-packages first
SyncAztec(fail) ==
    /\ sync.pc = "aztec"
    /\ LET aztecPackages == FindAztecPackages(sync.reposToSync) IN
       Materialize(aztecPackages, aztecPackages, fail, "pin", 1)
    /\ UNCHANGED aztecRepos

\* syncRepos giving up when the lookup finds no pin
SyncPinGivesUp(listing) ==
    LET noirCommit == getNoirCommitFromAztec(disk, listing) IN
    /\ sync.pc = "pin"
    /\ sync' = [sync EXCEPT !.noirCommit = noirCommit,
                            !.pc = IF noirCommit = Undefined THEN "return"
                                   ELSE AfterPin(sync.reposToSync)]
    /\ UNCHANGED <<baseRepos, aztecRepos, inputs, disk, ret, lastCall, prevCall, nSyncs, nFails, api>>

\* line 71: the pin lookup
SyncPin(listing) ==
    LET noirCommit == getNoirCommitFromAztec(disk, listing) IN
    /\ sync.pc = "pin"
    /\ sync' = [sync EXCEPT !.noirCommit = noirCommit, !.pc = AfterPin(sync.reposToSync)]
    /\ UNCHANGED <<baseRepos, aztecRepos, inputs, disk, ret, lastCall, prevCall, nSyncs, nFails, api>>

\* lines 73-94: one iteration of the noir loop
SyncNoir(fail) ==
    /\ sync.pc = "noir"
    /\ LET noirRepos == NoirRepos(sync.reposToSync)
           config    == noirRepos[sync.i]
           last      == sync.i = Len(noirRepos)
       IN /\ Materialize(config, NoirConfig(config, sync.noirCommit), fail,
                         IF ~last THEN "noir"
                         ELSE IF Len(OtherRepos(sync.reposToSync)) > 0 THEN "other"
                         ELSE "return",
                         IF last THEN 1 ELSE sync.i + 1)
          /\ aztecRepos' = OverrideSource(aztecRepos, config, sync.version, sync.noirCommit)

\* lines 96-107: one iteration of the loop over the other repos
SyncOther(fail) ==
    /\ sync.pc = "other"
    /\ LET otherRepos == OtherRepos(sync.reposToSync)
           config     == otherRepos[sync.i]
           last       == sync.i = Len(otherRepos)
       IN Materialize(config, config, fail,
                      IF last THEN "return" ELSE "other",
                      IF last THEN 1 ELSE sync.i + 1)
    /\ UNCHANGED aztecRepos

\* lines 109-120: the aggregate and the return
SyncReturn ==
    /\ sync.pc = "return"
    /\ ret' = SyncResult(sync.results, sync.effectiveVersion)
    /\ sync' = [sync EXCEPT !.pc = "idle"]
    /\ UNCHANGED <<baseRepos, aztecRepos, inputs, disk, lastCall, prevCall, nSyncs, nFails, api>>

-----------------------------------------------------------------------------
(* Specifications *)

EmptyDisk == [n \in RepoNames |-> Absent]

(* The checkouts a complete sync of an earlier run of the server has left
   under REPOS_DIR: the AztecProtocol repositories at the default version
   tag, the noir-lang repositories at their branch *)
Checkout(head) == [dir |-> TRUE, git |-> TRUE, head |-> head]

SyncedDisk ==
    [n \in RepoNames |->
        IF n \in {NAME_NOIR, NAME_NOIR_EXAMPLES}
        THEN Checkout(HeadAt("branch", <<"m", "a", "s", "t", "e", "r">>))
        ELSE Checkout(HeadAt("tag", DEFAULT_AZTEC_VERSION))]

\* the i-th, j-th, ... descriptors of base
Permute(base, p) == [i \in 1..Len(p) |-> base[p[i]]]

\* the orders of the configured descriptors in SpecBatch
BatchOrders ==
    { <<1, 2, 3, 4, 5>>, <<5, 4, 3, 2, 1>> }

InitWith(bases, disks, inp) ==
    /\ baseRepos \in bases
    /\ aztecRepos = StampRepos(baseRepos, Undefined)
    /\ inputs = inp
    /\ disk \in disks
    /\ sync = Idle
    /\ ret = None
    /\ lastCall = None
    /\ prevCall = None
    /\ nSyncs = 0
    /\ nFails = 0
    /\ api = NoCall

\* Spec: callers pass no version or a version, no filter or a one-name filter
Init ==
    InitWith({BASE_REPOS}, {EmptyDisk, SyncedDisk},
             [versions |-> {Undefined, V_2},
              filters  |-> {UndefinedArray, <<NAME_NOIR>>},
              syncs |-> MaxSyncs, fails |-> MaxFails])

\* SpecBatch: the filters include the empty list, unknown and repeated names
InitBatch ==
    InitWith({Permute(BASE_REPOS, p) : p \in BatchOrders}, {EmptyDisk, SyncedDisk},
             [versions |-> {Undefined, V_ERR},
              filters  |-> {UndefinedArray, <<>>, <<<<"n", "o", "n", "e", "x", "i", "s", "t", "e", "n", "t">>>>,
                            <<NAME_AZTEC_PACKAGES, NAME_NOIR_EXAMPLES>>,
                            <<NAME_NOIR, NAME_AZTEC_STARTER, NAME_NOIR, <<"n", "o", "n", "e", "x", "i", "s", "t", "e", "n", "t">>>>},
              syncs |-> BatchSyncs, fails |-> BatchFails])

Next ==
    \/ \E force \in BOOLEAN, repoNames \in inputs.filters, version \in inputs.versions :
          SyncStart(force, repoNames, version)
    \/ \E fail \in FailChoices : SyncAztec(fail)
    \/ \E listing \in LsTreeOutcomes : SyncPin(listing)
    \/ \E fail \in FailChoices : SyncNoir(fail)
    \/ \E fail \in FailChoices : SyncOther(fail)
    \/ SyncReturn

Spec == Init /\ [][Next]_vars

SpecBatch == InitBatch /\ [][Next]_vars

-----------------------------------------------------------------------------
(* Clients of the clone/update engine: cloneRepo and updateRepo are exported
   by src/src/utils/git.ts and called one at a time *)

\* number of direct calls in one behaviour of SpecGit
GitCalls == 2
\* number of those calls in which a VCS step fails
GitFails == 1

\* the record of a direct call
ApiCall(fn, rec) == [fn |-> fn, n |-> api.n + 1, rec |-> rec]

\* await updateRepo(repoName)
UpdateRepoCall(repoName, fail) ==
    LET out == updateRepo(disk, repoName, fail) IN
    /\ api.n < GitCalls
    /\ fail # {} => nFails < inputs.fails
    /\ nFails' = IF fail # {} THEN nFails + 1 ELSE nFails
    /\ disk' = out.disk
    /\ api' = ApiCall("updateRepo",
                      [repoName |-> repoName, fail |-> fail,
                       wasCloned |-> disk[repoName].git, before |-> disk[repoName],
                       end |-> out.end, value |-> out.value, ops |-> out.ops])
    /\ UNCHANGED <<baseRepos, aztecRepos, inputs, sync, ret, lastCall, prevCall, nSyncs>>

\* await cloneRepo(config, force)
CloneRepoCall(config, force, fail) ==
    LET out == cloneRepo(disk, config, force, fail) IN
    /\ api.n < GitCalls
    /\ fail # {} => nFails < inputs.fails
    /\ nFails' = IF fail # {} THEN nFails + 1 ELSE nFails
    /\ disk' = out.disk
    /\ prevCall' = lastCall
    /\ lastCall' = CallRecord(0, config, force, disk, out)
    /\ api' = ApiCall("cloneRepo", [fail |-> fail])
    /\ UNCHANGED <<baseRepos, aztecRepos, inputs, sync, ret, nSyncs>>

(* Status: getRepoCommit and getReposStatus of src/src/utils/git.ts and
   getStatus of src/src/tools/sync.ts.  What the commit-log query of a
   checkout does is the environment's choice: it throws, or it returns the
   latest commit's hash, or it returns no commit. *)
\* git.ts 141-151: null is Undefined; a rejected log query is not caught
getRepoCommit(d, repoName, log) ==
    IF ~isRepoCloned(d, repoName) THEN [threw |-> FALSE, value |-> Undefined]
    ELSE IF log.threw THEN [threw |-> TRUE, value |-> MSG_GIT]
    ELSE [threw |-> FALSE,
          value |-> IF ~Truthy(log.hash) THEN Undefined
                    ELSE SubSeq(log.hash, 1, IF Len(log.hash) < 7 THEN Len(log.hash) ELSE 7)]

\* git.ts 156-168: the entries in the order of configs, or the first
\* rejection; logs gives the log query's outcome for each repository
getReposStatus(d, configs, logs) ==
    LET commits == [k \in 1..Len(configs) |->
                       getRepoCommit(d, configs[k].name, logs[configs[k].name])]
    IN IF \E k \in 1..Len(configs) : commits[k].threw
       THEN [threw |-> TRUE, value |-> MSG_GIT]
       ELSE [threw |-> FALSE,
             value |-> [k \in 1..Len(configs) |->
                          [name |-> configs[k].name,
                           cloned |-> isRepoCloned(d, configs[k].name),
                           commit |-> commits[k].value]]]

\* sync.ts 126-151: the awaited getReposStatus is not in a try block
getStatus(d, logs) ==
    LET statusMap == getReposStatus(d, AZTEC_REPOS, logs) IN
    IF statusMap.threw THEN [end |-> "threw", value |-> statusMap.value]
    ELSE [end |-> "ok", value |-> [reposDir |-> REPOS_DIR, repos |-> statusMap.value]]

\* await getStatus()
GetStatusCall(logs) ==
    LET out == getStatus(disk, logs) IN
    /\ api.n < GitCalls
    /\ api' = ApiCall("getStatus", [logs |-> logs, end |-> out.end, value |-> out.value])
    /\ UNCHANGED <<baseRepos, aztecRepos, inputs, disk, sync, ret, lastCall, prevCall,
                   nSyncs, nFails>>

\* what the log queries of one getStatus call do: all return a hash, all
\* return no commit, or the query of one repository throws
LogChoices ==
    { [n \in RepoNames |-> [threw |-> FALSE, hash |-> PIN_COMMIT]],
      [n \in RepoNames |-> [threw |-> FALSE, hash |-> Undefined]],
      [n \in RepoNames |-> IF n = NAME_NOIR THEN [threw |-> TRUE, hash |-> Undefined]
                           ELSE [threw |-> FALSE, hash |-> PIN_COMMIT]] }

\* descriptors a client can pass besides the configured ones: one with a
\* commit and no branch, one with an empty sparse list, one with both a tag
\* and a branch
OtherConfigs ==
    { [BASE_REPOS[4] EXCEPT !.commit = PIN_COMMIT, !.branch = Undefined],
      [BASE_REPOS[2] EXCEPT !.tag = V_2, !.sparse = <<>>],
      [BASE_REPOS[5] EXCEPT !.tag = V_2] }

InitGit ==
    InitWith({BASE_REPOS}, {EmptyDisk, SyncedDisk},
             [versions |-> {Undefined}, filters |-> {UndefinedArray},
              syncs |-> 0, fails |-> GitFails])

NextGit ==
    \/ \E repoName \in RepoNames, fail \in FailChoices : UpdateRepoCall(repoName, fail)
    \/ \E version \in inputs.versions, i \in 1..Len(baseRepos), force \in BOOLEAN,
          fail \in FailChoices :
          CloneRepoCall(getAztecRepos(version)[i], force, fail)
    \/ \E config \in OtherConfigs, fail \in FailChoices : CloneRepoCall(config, TRUE, fail)
    \/ \E logs \in LogChoices : GetStatusCall(logs)

SpecGit == InitGit /\ [][NextGit]_vars

-----------------------------------------------------------------------------
(* The files of the mirror: src/src/utils/search.ts reads them under
   REPOS_DIR.  A repository's files are present when its checkout is. *)


\* a file of a repository: its path below the repository root and its lines
RepoFile(repo, path, lines) == [repo |-> repo, path |-> path, lines |-> lines]

(* What the checkouts hold, in the order a directory walk meets it *)
RepoContent ==
    << RepoFile(NAME_AZTEC_EXAMPLES, <<"t", "o", "k", "e", "n", "_", "b", "r", "i", "d", "g", "e", "/", "s", "r", "c", "/", "m", "a", "i", "n", ".", "n", "r">>,
                << <<"f", "n", " ", "t", "r", "a", "n", "s", "f", "e", "r", "(", "t", "o", ")", " ", "{">>, <<" ", " ", "m", "i", "n", "t", "|", "b", "u", "r", "n">> >>),
       RepoFile(NAME_AZTEC_EXAMPLES, <<"c", "o", "u", "n", "t", "e", "r", "/", "s", "r", "c", "/", "m", "a", "i", "n", ".", "n", "r">>,
                << <<"f", "n", " ", "a", "d", "d", "(", ")", " ", "{">>, <<" ", " ", "T", "r", "a", "n", "s", "f", "e", "r", "(", "1", ")", ";">>, <<" ", " ", "t", "r", "a", "n", "s", "f", "e", "r", "(", "2", ")", ";", " ">> >>),
       RepoFile(NAME_AZTEC_EXAMPLES, <<"c", "o", "u", "n", "t", "e", "r", "/", "s", "r", "c", "/", "t", "y", "p", "e", "s", ".", "n", "r">>, <<>>),
       RepoFile(NAME_AZTEC_PACKAGES, <<"n", "o", "i", "r", "-", "p", "r", "o", "j", "e", "c", "t", "s", "/", "n", "o", "i", "r", "-", "c", "o", "n", "t", "r", "a", "c", "t", "s", "/", "T", "o", "k", "e", "n", "/", "s", "r", "c", "/", "m", "a", "i", "n", ".", "n", "r">>,
                << <<"/", "/", " ", "t", "r", "a", "n", "s", "f", "e", "r">>, <<"f", "n", " ", "m", "i", "n", "t", "(", ")", " ", "{", "}">> >>),
       RepoFile(NAME_AZTEC_PACKAGES, <<"n", "o", "i", "r", "-", "p", "r", "o", "j", "e", "c", "t", "s", "/", "n", "o", "i", "r", "-", "c", "o", "n", "t", "r", "a", "c", "t", "s", "/", "t", "o", "k", "e", "n", "_", "b", "l", "a", "c", "k", "l", "i", "s", "t", "/", "s", "r", "c", "/", "m", "a", "i", "n", ".", "n", "r">>,
                << <<"f", "n", " ", "b", "u", "r", "n", "(", ")", " ", "{", "}">> >>),
       RepoFile(NAME_AZTEC_PACKAGES, <<"n", "o", "i", "r", "-", "p", "r", "o", "j", "e", "c", "t", "s", "/", "n", "o", "i", "r", "-", "c", "o", "n", "t", "r", "a", "c", "t", "s", "/", "e", "s", "c", "r", "o", "w", "/", "s", "r", "c", "/", "l", "i", "b", ".", "n", "r">>,
                << <<"u", "s", "e", " ", "t", "o", "k", "e", "n", ";">> >>),
       RepoFile(NAME_AZTEC_PACKAGES, <<"d", "o", "c", "s", "/", "d", "o", "c", "s", "/", "g", "u", "i", "d", "e", ".", "m", "d">>,
                << <<"h", "o", "w", " ", "t", "o", " ", "t", "r", "a", "n", "s", "f", "e", "r">> >>),
       RepoFile(NAME_AZTEC_PACKAGES, <<"d", "o", "c", "s", "/", "d", "o", "c", "s", "/", "c", "o", "n", "c", "e", "p", "t", "s", "/", "a", "c", "c", "o", "u", "n", "t", "s", ".", "m", "d", "x">>,
                << <<"#", " ", "A", "c", "c", "o", "u", "n", "t", "s">>, <<"a", "c", "c", "o", "u", "n", "t", "s", " ", "t", "r", "a", "n", "s", "f", "e", "r", " ", "t", "o", "k", "e", "n", "s">> >>) >>

\* join(REPOS_DIR, ...parts)
PathJoin(a, b) == a \o <<"/">> \o b

\* getRepoPath (git.ts 27-29)
getRepoPath(repoName) == PathJoin(REPOS_DIR, repoName)

\* the absolute path of a file of the mirror
AbsolutePath(f) == PathJoin(getRepoPath(f.repo), f.path)

\* the files present under REPOS_DIR
MirrorFiles(d) == SelectSeq(RepoContent, LAMBDA f : d[f.repo].dir /\ d[f.repo].git)

\* existsSync(path) for REPOS_DIR, a checkout directory or anything below one
ExistsSync(d, path) ==
    \/ path = REPOS_DIR /\ \E n \in RepoNames : d[n].dir
    \/ \E n \in RepoNames : d[n].dir /\ path = getRepoPath(n)
    \/ \E k \in 1..Len(MirrorFiles(d)) :
          LET abs == AbsolutePath(MirrorFiles(d)[k]) IN
          Len(abs) >= Len(path) /\ SubSeq(abs, 1, Len(path)) = path
               /\ (Len(abs) = Len(path) \/ abs[Len(path) + 1] = "/")

\* path.relative(REPOS_DIR, file) for a file below REPOS_DIR
Relative(from, file) ==
    IF Len(file) > Len(from) /\ SubSeq(file, 1, Len(from)) = from /\ file[Len(from) + 1] = "/"
    THEN SubSeq(file, Len(from) + 2, Len(file))
    ELSE file

\* String.prototype.split(sep) for a one-character separator
RECURSIVE Split(_, _)
Split(s, sep) ==
    IF \A k \in 1..Len(s) : s[k] # sep THEN <<s>>
    ELSE LET k == CHOOSE i \in 1..Len(s) : s[i] = sep /\ \A j \in 1..(i - 1) : s[j] # sep
         IN <<SubSeq(s, 1, k - 1)>> \o Split(SubSeq(s, k + 1, Len(s)), sep)

\* String.prototype.trim for the white space that occurs
RECURSIVE Trim(_)
Trim(s) ==
    IF s = <<>> THEN s
    ELSE IF s[1] \in {" ", "\t", "\n", "\r"} THEN Trim(Tail(s))
    ELSE IF s[Len(s)] \in {" ", "\t", "\n", "\r"} THEN Trim(SubSeq(s, 1, Len(s) - 1))
    ELSE s

\* String.prototype.endsWith
EndsWith(s, suffix) ==
    Len(s) >= Len(suffix) /\ SubSeq(s, Len(s) - Len(suffix) + 1, Len(s)) = suffix

-----------------------------------------------------------------------------
(* Regular expressions: new RegExp(query, flags) of search.ts 231-234 and
   the pattern argument of rg.  The part of the syntax the queries of the
   model use: literal characters, "." , the quantifiers * + ? after an atom,
   "|" between alternatives, a backslash before a punctuation character;
   an unclosed "(" or "[" , an unmatched ")" , a quantifier with nothing
   before it and a trailing backslash are syntax errors. *)


Token(kind, c) == [kind |-> kind, c |-> c]

RECURSIVE Tokens(_)
Tokens(q) ==
    IF q = <<>> THEN <<>>
    ELSE IF q[1] = "\\"
         THEN IF Len(q) >= 2
              THEN <<Token("char", q[2])>> \o Tokens(SubSeq(q, 3, Len(q)))
              ELSE <<Token("bad", q[1])>>
    ELSE LET kind == IF q[1] = "." THEN "any"
                     ELSE IF q[1] = "|" THEN "bar"
                     ELSE IF q[1] \in {"*", "+", "?"} THEN "quant"
                     ELSE IF q[1] = "(" THEN "open"
                     ELSE IF q[1] = ")" THEN "close"
                     ELSE IF q[1] = "[" THEN "class"
                     ELSE "char"
         IN <<Token(kind, q[1])>> \o Tokens(Tail(q))

\* the number of groups open after the first k tokens
RECURSIVE Depth(_, _)
Depth(ts, k) ==
    IF k = 0 THEN 0
    ELSE Depth(ts, k - 1) + (IF ts[k].kind = "open" THEN 1
                             ELSE IF ts[k].kind = "close" THEN -1 ELSE 0)

\* SyntaxError of new RegExp(q); rg rejects the same patterns
InvalidRegExp(q) ==
    LET ts == Tokens(q) IN
    \/ \E k \in 1..Len(ts) : ts[k].kind = "bad"
    \/ \E k \in 1..Len(ts) : Depth(ts, k) < 0
    \/ Depth(ts, Len(ts)) # 0
    \/ \E k \in 1..Len(ts) :
          /\ ts[k].kind = "class"
          /\ \A j \in (k + 1)..Len(ts) : ~(ts[j].kind = "char" /\ ts[j].c = "]")
    \/ \E k \in 1..Len(ts) :
          /\ ts[k].kind = "quant"
          /\ \/ k = 1
             \/ ts[k - 1].kind \in {"bar", "open"}
             \/ /\ ts[k - 1].kind = "quant"
                /\ ts[k].c # "?" \/ k = 2 \/ ts[k - 2].kind = "quant"

\* the alternatives of a pattern: the token runs between the bars
RECURSIVE Alternatives(_)
Alternatives(ts) ==
    IF \A k \in 1..Len(ts) : ts[k].kind # "bar" THEN <<ts>>
    ELSE LET k == CHOOSE i \in 1..Len(ts) :
                     ts[i].kind = "bar" /\ \A j \in 1..(i - 1) : ts[j].kind # "bar"
         IN <<SubSeq(ts, 1, k - 1)>> \o Alternatives(SubSeq(ts, k + 1, Len(ts)))

\* the atoms of one alternative, each with its quantifier ("1" for none);
\* a "?" after a quantifier only makes it lazy
RECURSIVE Items(_)
Items(ts) ==
    IF ts = <<>> THEN <<>>
    ELSE IF Len(ts) >= 2 /\ ts[2].kind = "quant"
         THEN LET n == IF Len(ts) >= 3 /\ ts[3].kind = "quant" THEN 3 ELSE 2 IN
              <<[atom |-> ts[1], q |-> ts[2].c]>> \o Items(SubSeq(ts, n + 1, Len(ts)))
         ELSE <<[atom |-> ts[1], q |-> "1"]>> \o Items(Tail(ts))

AtomMatches(atom, c, ignoreCase) ==
    \/ atom.kind = "any"
    \/ atom.c = c
    \/ ignoreCase /\ LowerChar(atom.c) = LowerChar(c)

\* the items match s from position i on
RECURSIVE MatchHere(_, _, _, _)
MatchHere(items, s, i, ignoreCase) ==
    IF items = <<>> THEN TRUE
    ELSE LET it   == items[1]
             rest == Tail(items)
             run(n) == \A k \in i..(i + n - 1) : AtomMatches(it.atom, s[k], ignoreCase)
             least == IF it.q \in {"*", "?"} THEN 0 ELSE 1
             most  == IF it.q \in {"1", "?"} THEN 1 ELSE Len(s) - i + 1
         IN \E n \in least..most :
               /\ i + n - 1 <= Len(s)
               /\ run(n)
               /\ MatchHere(rest, s, i + n, ignoreCase)

\* RegExp.prototype.test, and rg's decision for one line, for a valid pattern
RegExpTest(q, s, ignoreCase) ==
    LET alts == Alternatives(Tokens(q)) IN
    \E a \in 1..Len(alts) : \E i \in 1..(Len(s) + 1) :
        MatchHere(Items(alts[a]), s, i, ignoreCase)

-----------------------------------------------------------------------------
(* Code search: src/src/utils/search.ts *)


\* String.prototype.startsWith
StartsWithSeq(s, prefix) ==
    Len(s) >= Len(prefix) /\ SubSeq(s, 1, Len(prefix)) = prefix

\* the grave accent (U+0060), which a string of this notation cannot hold
Backtick == "<backtick>"

\* the characters escapeShell puts a backslash before
ShellSpecial == {"\"", "$", Backtick, "\\", "!"}

\* line 185 with "!" left out of the character class
RECURSIVE escapeShellKeepsBang(_)
escapeShellKeepsBang(str) ==
    IF str = <<>> THEN <<>>
    ELSE (IF str[1] \in {"\"", "$", Backtick, "\\"} THEN <<"\\", str[1]>> ELSE <<str[1]>>)
         \o escapeShellKeepsBang(Tail(str))

\* line 185: str.replace(/[...]/g, "\\$&") over the class of ShellSpecial
RECURSIVE escapeShell(_)
escapeShell(str) ==
    IF str = <<>> THEN <<>>
    ELSE (IF str[1] \in ShellSpecial THEN <<"\\", str[1]>> ELSE <<str[1]>>)
         \o escapeShell(Tail(str))

\* lines 47-57: the flags, without the empty ones, joined by spaces
RgFlags(filePattern, maxResults, caseSensitive) ==
    Join(SelectSeq(<< IF caseSensitive THEN <<>> ELSE <<"-", "i">>, <<"-", "n">>, <<"-", "-", "n", "o", "-", "h", "e", "a", "d", "i", "n", "g">>,
                      <<"-", "g">>, filePattern, <<"-", "m">>, NumToString(maxResults * 2) >>,
                   LAMBDA flag : flag # <<>>),
         <<" ">>)

\* line 59: the command line handed to the shell
RgCommand(query, searchPath, filePattern, maxResults, caseSensitive) ==
    <<"r", "g", " ">> \o RgFlags(filePattern, maxResults, caseSensitive) \o <<" ">>
         \o <<"\"">> \o escapeShell(query) \o <<"\"">> \o <<" ">>
         \o <<"\"">> \o searchPath \o <<"\"">>

\* a glob "*.ext", or "**/*.ext", matches the files whose name ends in ".ext";
\* a glob "**/a/b" matches the file a/b of any directory; a glob that ends
\* in "{x,y}" matches what it matches with x or with y in place of the braces
GlobMatches(pattern, path) ==
    LET p == IF StartsWithSeq(pattern, <<"*", "*", "/">>) THEN SubSeq(pattern, 4, Len(pattern))
             ELSE pattern
        matches(q) == /\ Len(q) >= 1
                      /\ IF q[1] = "*" THEN EndsWith(path, Tail(q))
                         ELSE path = q \/ EndsWith(path, <<"/">> \o q)
    IN IF p # <<>> /\ p[Len(p)] = "}" /\ Includes(p, <<"{">>)
       THEN LET open  == IndexOf(p, <<"{">>)
                inner == Split(SubSeq(p, open + 2, Len(p) - 1), ",")
            IN \E k \in 1..Len(inner) : matches(SubSeq(p, 1, open) \o inner[k])
       ELSE matches(p)

\* the files below searchPath a walk meets, in the order it meets them
FilesBelow(d, searchPath, reversed) ==
    LET found == SelectSeq(MirrorFiles(d),
                           LAMBDA f : StartsWithSeq(AbsolutePath(f), searchPath \o <<"/">>))
    IN IF reversed THEN [k \in 1..Len(found) |-> found[Len(found) + 1 - k]] ELSE found

\* the numbers of the lines of f that match, in order
MatchingLines(f, query, caseSensitive) ==
    SelectSeq([i \in 1..Len(f.lines) |-> i],
              LAMBDA i : RegExpTest(query, f.lines[i], ~caseSensitive))

RECURSIVE Concat(_)
Concat(parts) == IF parts = <<>> THEN <<>> ELSE parts[1] \o Concat(Tail(parts))

(* What the search process does, env being the environment's part: the
   binary is missing, the run exceeds the timeout, or it runs.  A run exits
   with status 0 and one "path:line:content" line per match, at most -m of
   them per file; with status 1 when nothing matches; with status 2 when
   the pattern is not a regular expression.  execSync throws unless the
   status is 0. *)
RgOutput(d, env, query, searchPath, filePattern, maxResults, caseSensitive) ==
    LET files == SelectSeq(FilesBelow(d, searchPath, env.reversed),
                           LAMBDA f : GlobMatches(filePattern, f.path))
        \* the first -m of the matching lines
        hits(f) == LET all == MatchingLines(f, query, caseSensitive)
                   IN SubSeq(all, 1, IF Len(all) < maxResults * 2 THEN Len(all)
                                     ELSE maxResults * 2)
        text(f) == Concat([k \in 1..Len(hits(f)) |->
                             AbsolutePath(f) \o <<":">> \o NumToString(hits(f)[k]) \o <<":">>
                                 \o f.lines[hits(f)[k]] \o <<"\n">>])
    IN Concat([k \in 1..Len(files) |-> text(files[k])])

execSync(d, env, query, searchPath, filePattern, maxResults, caseSensitive) ==
    IF env.rg # "run" THEN [threw |-> TRUE, status |-> env.rg, stdout |-> <<>>]
    ELSE IF InvalidRegExp(query) THEN [threw |-> TRUE, status |-> "exit 2", stdout |-> <<>>]
    ELSE LET out == RgOutput(d, env, query, searchPath, filePattern, maxResults, caseSensitive)
         IN IF out = <<>> THEN [threw |-> TRUE, status |-> "exit 1", stdout |-> <<>>]
            ELSE [threw |-> FALSE, status |-> "exit 0", stdout |-> out]

\* SearchResult
SearchResult(file, line, content) ==
    LET relativePath == Relative(REPOS_DIR, file) IN
    [file |-> relativePath, line |-> line, content |-> Trim(content),
     repo |-> Split(relativePath, "/")[1]]

\* parseInt(s, 10) of a run of digits
RECURSIVE ParseInt(_)
ParseInt(s) ==
    IF s = <<>> THEN 0
    ELSE ParseInt(SubSeq(s, 1, Len(s) - 1)) * 10
         + (CHOOSE n \in 0..9 : Digits[n + 1] = s[Len(s)])

\* line.match(/^(.+?):(\d+):(.*)$/): the places of the two colons, <<>> for
\* no match
RgLineMatch(line) ==
    LET digits(s) == s # <<>> /\ \A k \in 1..Len(s) : \E n \in 1..10 : Digits[n] = s[k]
        ok(a, b) == /\ line[a] = ":" /\ line[b] = ":"
                    /\ digits(SubSeq(line, a + 1, b - 1))
        firsts == {a \in 2..Len(line) : \E b \in (a + 2)..Len(line) : ok(a, b)}
    IN IF firsts = {} THEN <<>>
       ELSE LET a == CHOOSE x \in firsts : \A y \in firsts : x <= y
                b == CHOOSE x \in (a + 2)..Len(line) : ok(a, x)
            IN <<a, b>>

\* lines 192-209 without the length check of line 193
RECURSIVE ParseRgLinesUnlimited(_, _, _)
ParseRgLinesUnlimited(results, lines, maxResults) ==
    IF lines = <<>> THEN results
    ELSE LET line  == lines[1]
             match == RgLineMatch(line)
         IN IF match = <<>> THEN ParseRgLinesUnlimited(results, Tail(lines), maxResults)
            ELSE ParseRgLinesUnlimited(
                   Append(results,
                          SearchResult(SubSeq(line, 1, match[1] - 1),
                                       ParseInt(SubSeq(line, match[1] + 1, match[2] - 1)),
                                       SubSeq(line, match[2] + 1, Len(line)))),
                   Tail(lines), maxResults)

\* lines 192-209, over the lines that are left
RECURSIVE ParseRgLines(_, _, _)
ParseRgLines(results, lines, maxResults) ==
    IF lines = <<>> THEN results
    ELSE IF Len(results) >= maxResults THEN results
    ELSE LET line  == lines[1]
             match == RgLineMatch(line)
         IN IF match = <<>> THEN ParseRgLines(results, Tail(lines), maxResults)
            ELSE ParseRgLines(
                   Append(results,
                          SearchResult(SubSeq(line, 1, match[1] - 1),
                                       ParseInt(SubSeq(line, match[1] + 1, match[2] - 1)),
                                       SubSeq(line, match[2] + 1, Len(line)))),
                   Tail(lines), maxResults)

parseRgOutput(output, maxResults) ==
    ParseRgLines(<<>>, SelectSeq(Split(output, "\n"), LAMBDA line : line # <<>>), maxResults)

\* lines 243-260, from line i of the file on
RECURSIVE ScanLines(_, _, _, _, _, _)
ScanLines(results, f, i, query, maxResults, caseSensitive) ==
    IF i > Len(f.lines) THEN results
    ELSE IF Len(results) >= maxResults THEN results
    ELSE ScanLines(IF RegExpTest(query, f.lines[i], ~caseSensitive)
                   THEN Append(results, SearchResult(AbsolutePath(f), i, f.lines[i]))
                   ELSE results,
                   f, i + 1, query, maxResults, caseSensitive)

\* lines 236-264, over the files that are left
RECURSIVE ScanFiles(_, _, _, _, _)
ScanFiles(results, files, query, maxResults, caseSensitive) ==
    IF files = <<>> THEN results
    ELSE IF Len(results) >= maxResults THEN results
    ELSE ScanFiles(ScanLines(results, files[1], 1, query, maxResults, caseSensitive),
                   Tail(files), query, maxResults, caseSensitive)

\* globbySync(pattern, {cwd, absolute, ignore})
globbySync(d, env, pattern, cwd) ==
    SelectSeq(FilesBelow(d, cwd, env.reversed),
              LAMBDA f : /\ GlobMatches(pattern, f.path)
                         /\ ~Includes(AbsolutePath(f), <<"/", "n", "o", "d", "e", "_", "m", "o", "d", "u", "l", "e", "s", "/">>)
                         /\ ~Includes(AbsolutePath(f), <<"/", ".", "g", "i", "t", "/">>))

\* lines 214-270
manualSearch(d, env, query, searchPath, filePattern, maxResults, caseSensitive) ==
    LET pattern == Replace(filePattern, <<"*", ".">>, <<"*", "*", "/", "*", ".">>)
        files   == globbySync(d, env, pattern, searchPath)
    IN IF InvalidRegExp(query) THEN <<>>
       ELSE ScanFiles(<<>>, files, query, maxResults, caseSensitive)

\* a numeric option the caller left out
UndefinedNumber == -1

\* lines 28-70; an option the caller left out is Undefined, UndefinedNumber
\* for a number, and FALSE for caseSensitive, whose default is false
searchCode(d, env, query, options) ==
    LET filePattern   == IF options.filePattern = Undefined THEN <<"*", ".", "n", "r">>
                         ELSE options.filePattern
        maxResults    == IF options.maxResults = UndefinedNumber THEN 50
                         ELSE options.maxResults
        caseSensitive == options.caseSensitive
        searchPath    == IF Truthy(options.repo) THEN getRepoPath(options.repo) ELSE REPOS_DIR
        command       == RgCommand(query, searchPath, filePattern, maxResults, caseSensitive)
        primary       == execSync(d, env, query, searchPath, filePattern, maxResults,
                                  caseSensitive)
    IN IF ~ExistsSync(d, searchPath)
       THEN [results |-> <<>>, command |-> Undefined, status |-> "not run", fallback |-> FALSE]
       ELSE IF ~primary.threw
       THEN [results |-> parseRgOutput(primary.stdout, maxResults), command |-> command,
             status |-> primary.status, fallback |-> FALSE]
       ELSE [results |-> manualSearch(d, env, query, searchPath, filePattern, maxResults,
                                      caseSensitive),
             command |-> command, status |-> primary.status, fallback |-> TRUE]

\* FileInfo
FileInfo(path, name, repo, type) == [path |-> path, name |-> name, repo |-> repo, type |-> type]

\* Array.prototype.indexOf; -1 when absent
ArrayIndexOf(a, x) ==
    IF \E k \in 1..Len(a) : a[k] = x
    THEN (CHOOSE k \in 1..Len(a) : a[k] = x /\ \A j \in 1..(k - 1) : a[j] # x) - 1
    ELSE -1

\* lines 272-301
findContracts(d, env, basePath, repoName) ==
    LET files == globbySync(d, env, <<"*", "*", "/", "s", "r", "c", "/", "m", "a", "i", "n", ".", "n", "r">>, basePath)
    IN [k \in 1..Len(files) |->
          LET relativePath == Relative(REPOS_DIR, AbsolutePath(files[k]))
              parts        == Split(relativePath, "/")
              srcIndex     == ArrayIndexOf(parts, <<"s", "r", "c">>)
              name         == IF srcIndex > 0 THEN parts[srcIndex] ELSE parts[Len(parts) - 1]
          IN FileInfo(relativePath, name, repoName, "contract")]

\* lines 104-136
listExamples(d, env, category) ==
    LET examplesPath      == getRepoPath(NAME_AZTEC_EXAMPLES)
        noirContractsPath == PathJoin(PathJoin(getRepoPath(NAME_AZTEC_PACKAGES), <<"n", "o", "i", "r", "-", "p", "r", "o", "j", "e", "c", "t", "s">>),
                                      <<"n", "o", "i", "r", "-", "c", "o", "n", "t", "r", "a", "c", "t", "s">>)
        examples ==
            (IF ExistsSync(d, examplesPath)
             THEN findContracts(d, env, examplesPath, NAME_AZTEC_EXAMPLES) ELSE <<>>)
            \o (IF ExistsSync(d, noirContractsPath)
                THEN findContracts(d, env, noirContractsPath, NAME_AZTEC_PACKAGES) ELSE <<>>)
    IN IF Truthy(category)
       THEN SelectSeq(examples,
                      LAMBDA e : \/ Includes(ToLowerCase(e.name), ToLowerCase(category))
                                 \/ Includes(ToLowerCase(e.path), ToLowerCase(category)))
       ELSE examples

\* lines 164-175 with the partial match tried before the exact one
findExamplePartialFirst(d, env, name) ==
    LET examples == listExamples(d, env, Undefined)
        partial  == SelectSeq(examples,
                              LAMBDA e : \/ Includes(ToLowerCase(e.name), ToLowerCase(name))
                                         \/ Includes(ToLowerCase(e.path), ToLowerCase(name)))
    IN IF partial # <<>> THEN partial[1] ELSE None

\* lines 159-176; null is None
findExample(d, env, name) ==
    LET examples  == listExamples(d, env, Undefined)
        lowerName == ToLowerCase(name)
        exact     == SelectSeq(examples, LAMBDA e : ToLowerCase(e.name) = lowerName)
        partial   == SelectSeq(examples,
                               LAMBDA e : \/ Includes(ToLowerCase(e.name), lowerName)
                                          \/ Includes(ToLowerCase(e.path), lowerName))
    IN IF exact # <<>> THEN exact[1]
       ELSE IF partial # <<>> THEN partial[1]
       ELSE None

-----------------------------------------------------------------------------
(* Clients of the search utilities *)

\* number of searches in one behaviour of SpecSearch
SearchCalls == 1

\* the options object of searchCode
SearchOptions(filePattern, repo, maxResults, caseSensitive) ==
    [filePattern |-> filePattern, repo |-> repo, maxResults |-> maxResults,
     caseSensitive |-> caseSensitive]

\* the environment's part in one search
SearchEnv(rg, reversed) == [rg |-> rg, reversed |-> reversed]

\* searchCode(query, options)
SearchCodeCall(query, options, env) ==
    LET out == searchCode(disk, env, query, options) IN
    /\ api.n < SearchCalls
    /\ api' = ApiCall("searchCode",
                      [query |-> query, options |-> options, env |-> env,
                       results |-> out.results, command |-> out.command,
                       status |-> out.status, fallback |-> out.fallback])
    /\ UNCHANGED <<baseRepos, aztecRepos, inputs, disk, sync, ret, lastCall, prevCall, nSyncs, nFails>>

\* findExample(name)
FindExampleCall(name, env) ==
    /\ api.n < SearchCalls
    /\ api' = ApiCall("findExample",
                      [name |-> name, env |-> env,
                       examples |-> listExamples(disk, env, Undefined),
                       match |-> findExample(disk, env, name)])
    /\ UNCHANGED <<baseRepos, aztecRepos, inputs, disk, sync, ret, lastCall, prevCall, nSyncs, nFails>>

\* the names a client looks for
ExampleNames ==
    { <<"t", "o", "k", "e", "n">>,
      <<"T", "O", "K", "E", "N">>,
      <<"T", "o", "k", "e", "n">>,
      <<"t", "o", "k", "e", "n", "_", "b">>,
      <<"c", "o", "u", "n", "t", "e", "r">>,
      <<"C", "o", "u", "n", "t">>,
      <<"n", "o", "i", "r", "-", "c", "o", "n", "t", "r", "a", "c", "t", "s">>,
      <<"b", "l", "a", "c", "k", "l", "i", "s", "t">>,
      <<"e", "s", "c", "r", "o", "w">>,
      <<"z", "z", "z">> }

\* the queries: a word, the word in capitals, a regular expression with an
\* alternative, a word no file holds, and an unterminated group
SearchQueries ==
    { <<"t", "r", "a", "n", "s", "f", "e", "r">>,
      <<"T", "R", "A", "N", "S", "F", "E", "R">>,
      <<"t", "r", ".", "*", "f", "e", "r", "|", "m", "i", "n", "t">>,
      <<"z", "z", "z">>,
      <<"t", "r", "a", "n", "s", "f", "e", "r", "(">> }

SearchOptionSets ==
    { SearchOptions(Undefined, Undefined, UndefinedNumber, FALSE),
      SearchOptions(Undefined, Undefined, 1, FALSE),
      SearchOptions(Undefined, Undefined, 2, FALSE),
      SearchOptions(Undefined, Undefined, 1, TRUE),
      SearchOptions(Undefined, Undefined, UndefinedNumber, TRUE),
      SearchOptions(Undefined, NAME_AZTEC_EXAMPLES, UndefinedNumber, FALSE),
      SearchOptions(Undefined, NAME_AZTEC_EXAMPLES, 2, FALSE),
      SearchOptions(Undefined, NAME_NOIR, UndefinedNumber, FALSE),
      SearchOptions(<<"*", ".", "m", "d">>, Undefined, UndefinedNumber, FALSE) }

SearchEnvs ==
    { SearchEnv("missing", FALSE), SearchEnv("timeout", FALSE),
      SearchEnv("run", FALSE), SearchEnv("run", TRUE) }

\* the checkouts a sync of aztec-examples alone has left
ExamplesDisk ==
    [n \in RepoNames |->
        IF n = NAME_AZTEC_EXAMPLES THEN Checkout(HeadAt("tag", DEFAULT_AZTEC_VERSION))
        ELSE Absent]

\* what the client of one behaviour passes: the arguments of a code search,
\* or the name of an example
InitSearch ==
    \E inp \in
          { [query |-> query, options |-> options, env |-> env, name |-> Undefined] :
               query \in SearchQueries, options \in SearchOptionSets, env \in SearchEnvs }
          \cup
          { [query |-> Undefined, options |-> Undefined, env |-> env, name |-> name] :
               name \in ExampleNames, env \in SearchEnvs } :
        InitWith({BASE_REPOS}, {EmptyDisk, ExamplesDisk, SyncedDisk}, inp)

NextSearch ==
    \/ inputs.query # Undefined /\ SearchCodeCall(inputs.query, inputs.options, inputs.env)
    \/ inputs.name # Undefined /\ FindExampleCall(inputs.name, inputs.env)

SpecSearch == InitSearch /\ [][NextSearch]_vars

-----------------------------------------------------------------------------
(* The command line of a search, for every short query: search.ts 59, 184-186 *)

\* longest query of SpecEscape
MaxQueryLen == 3

\* the queries, over the five characters the shell treats specially inside
\* double quotes, the regular expression operators, and a letter
QueryStrings ==
    UNION { [1..n -> ShellSpecial \cup {"|", ".", "*", "+", "?", "(", ")", "[", "]", "a"}] :
               n \in 0..MaxQueryLen }

\* line 59 with the default options of line 37 and no repo: the query goes
\* through escapeShell into the command line
EscapeShellCall ==
    /\ api.n < SearchCalls
    /\ api' = ApiCall("escapeShell",
                      [str |-> inputs.str, out |-> escapeShell(inputs.str),
                       command |-> RgCommand(inputs.str, REPOS_DIR, <<"*", ".", "n", "r">>, 50, FALSE)])
    /\ UNCHANGED <<baseRepos, aztecRepos, inputs, disk, sync, ret, lastCall, prevCall, nSyncs, nFails>>

InitEscape == \E str \in QueryStrings : InitWith({BASE_REPOS}, {EmptyDisk}, [str |-> str])

NextEscape == EscapeShellCall

SpecEscape == InitEscape /\ [][NextEscape]_vars

-----------------------------------------------------------------------------
(* Clients of the registry: getAztecRepos is exported by
   src/src/repos/config.ts and called between and during syncs *)

\* number of getAztecRepos calls in one behaviour of SpecConfig
ConfigCalls == 2
\* number of syncRepos calls in one behaviour of SpecConfig
ConfigSyncs == 1

\* getAztecRepos(version)
GetAztecReposCall(version) ==
    /\ api.n < ConfigCalls
    /\ api' = ApiCall("getAztecRepos",
                      [version |-> version, base |-> baseRepos,
                       repos |-> getAztecRepos(version)])
    /\ baseRepos' = MapSource(baseRepos, version)
    /\ UNCHANGED <<aztecRepos, inputs, disk, sync, ret, lastCall, prevCall, nSyncs, nFails>>

\* SpecConfig: callers pass no version, the empty string, or one of two versions
InitConfig ==
    InitWith({Permute(BASE_REPOS, p) : p \in BatchOrders}, {EmptyDisk, SyncedDisk},
             [versions |-> {Undefined, <<>>, V_2, V_ERR},
              filters  |-> {UndefinedArray, <<NAME_NOIR>>},
              syncs |-> ConfigSyncs, fails |-> 0])

NextConfig ==
    \/ Next
    \/ \E version \in inputs.versions : GetAztecReposCall(version)

SpecConfig == InitConfig /\ [][NextConfig]_vars

-----------------------------------------------------------------------------
(* The search tools: src/src/tools/search.ts (src/unnamed/part_001), with
   searchDocs and readFile of src/src/utils/search.ts.  An option the caller
   left out is Undefined, UndefinedNumber for a number; search records the
   call made to the search utility, None when none was made. *)

\* search.ts 75-99
searchDocs(d, env, query, options) ==
    LET section    == options.section
        maxResults == IF options.maxResults = UndefinedNumber THEN 30 ELSE options.maxResults
        docsPath   == PathJoin(PathJoin(PathJoin(getRepoPath(NAME_AZTEC_PACKAGES), <<"d", "o", "c", "s">>),
                                        <<"d", "o", "c", "s">>), section)
        repo       == IF Truthy(section) /\ ExistsSync(d, docsPath)
                      THEN <<"a", "z", "t", "e", "c", "-", "p", "a", "c", "k", "a", "g", "e", "s", "/", "d", "o", "c", "s", "/", "d", "o", "c", "s", "/">> \o section
                      ELSE Undefined
    IN searchCode(d, env, query,
                  SearchOptions(<<"*", ".", "{", "m", "d", ",", "m", "d", "x", "}">>, OrElse(repo, NAME_AZTEC_PACKAGES),
                                maxResults, FALSE)).results

\* search.ts 141-154: null is Undefined; readFileSync gives the text of a
\* file and throws for a directory
readFile(d, filePath) ==
    LET fullPath == IF StartsWithSeq(filePath, <<"/">>) THEN filePath
                    ELSE PathJoin(REPOS_DIR, filePath)
        files    == SelectSeq(MirrorFiles(d), LAMBDA f : AbsolutePath(f) = fullPath)
    IN IF ~ExistsSync(d, fullPath) THEN Undefined
       ELSE IF files = <<>> THEN Undefined
       ELSE Concat([k \in 1..Len(files[1].lines) |-> files[1].lines[k] \o <<"\n">>])

\* part_001 20-58 without the check of the named repository (lines 33-39)
searchAztecCodeUnchecked(d, env, options) ==
    LET filePattern == IF options.filePattern = Undefined THEN <<"*", ".", "n", "r">> ELSE options.filePattern
        maxResults  == IF options.maxResults = UndefinedNumber THEN 30 ELSE options.maxResults
        call        == SearchOptions(filePattern, options.repo, maxResults, FALSE)
        found(results) ==
            [success |-> TRUE, results |-> results, search |-> call,
             message |-> IF Len(results) > 0
                         THEN <<"F", "o", "u", "n", "d", " ">> \o NumToString(Len(results)) \o <<" ", "m", "a", "t", "c", "h", "e", "s">>
                         ELSE <<"N", "o", " ", "m", "a", "t", "c", "h", "e", "s", " ", "f", "o", "u", "n", "d">>]
    IN IF ~(\E n \in RepoNames : isRepoCloned(d, n))
       THEN [success |-> FALSE, results |-> <<>>, search |-> None,
             message |-> <<"N", "o", " ", "r", "e", "p", "o", "s", "i", "t", "o", "r", "i", "e", "s", " ", "a", "r", "e", " ", "c", "l", "o", "n", "e", "d", ".", " ", "R", "u", "n", " ", "a", "z", "t", "e", "c", "_", "s", "y", "n", "c", "_", "r", "e", "p", "o", "s", " ", "f", "i", "r", "s", "t", ".">>]
       ELSE found(searchCode(d, env, options.query, call).results)

\* part_001 20-58; found is the return of lines 52-59 for the results of
\* doSearchCode
searchAztecCode(d, env, options) ==
    LET query       == options.query
        filePattern == IF options.filePattern = Undefined THEN <<"*", ".", "n", "r">> ELSE options.filePattern
        repo        == options.repo
        maxResults  == IF options.maxResults = UndefinedNumber THEN 30 ELSE options.maxResults
        anyCloned   == \E n \in RepoNames : isRepoCloned(d, n)
        call        == SearchOptions(filePattern, repo, maxResults, FALSE)
        found(results) ==
            [success |-> TRUE, results |-> results, search |-> call,
             message |-> IF Len(results) > 0
                         THEN <<"F", "o", "u", "n", "d", " ">> \o NumToString(Len(results)) \o <<" ", "m", "a", "t", "c", "h", "e", "s">>
                         ELSE <<"N", "o", " ", "m", "a", "t", "c", "h", "e", "s", " ", "f", "o", "u", "n", "d">>]
    IN IF Truthy(repo) /\ ~isRepoCloned(d, repo)
       THEN [success |-> FALSE, results |-> <<>>, search |-> None,
             message |-> <<"R", "e", "p", "o", "s", "i", "t", "o", "r", "y", " ", "'">> \o repo
                             \o <<"'", " ", "i", "s", " ", "n", "o", "t", " ", "c", "l", "o", "n", "e", "d", ".", " ", "R", "u", "n", " ", "a", "z", "t", "e", "c", "_", "s", "y", "n", "c", "_", "r", "e", "p", "o", "s", " ", "f", "i", "r", "s", "t", ".">>]
       ELSE IF ~anyCloned
       THEN [success |-> FALSE, results |-> <<>>, search |-> None,
             message |-> <<"N", "o", " ", "r", "e", "p", "o", "s", "i", "t", "o", "r", "i", "e", "s", " ", "a", "r", "e", " ", "c", "l", "o", "n", "e", "d", ".", " ", "R", "u", "n", " ", "a", "z", "t", "e", "c", "_", "s", "y", "n", "c", "_", "r", "e", "p", "o", "s", " ", "f", "i", "r", "s", "t", ".">>]
       ELSE found(searchCode(d, env, query, call).results)

\* part_001 63-93; found is the return of lines 86-93 for the results of
\* doSearchDocs
searchAztecDocs(d, env, options) ==
    LET maxResults == IF options.maxResults = UndefinedNumber THEN 20 ELSE options.maxResults
        call       == [section |-> options.section, maxResults |-> maxResults]
        found(results) ==
            [success |-> TRUE, results |-> results, search |-> call,
             message |-> IF Len(results) > 0
                         THEN <<"F", "o", "u", "n", "d", " ">> \o NumToString(Len(results))
                                  \o <<" ", "d", "o", "c", "u", "m", "e", "n", "t", "a", "t", "i", "o", "n", " ", "m", "a", "t", "c", "h", "e", "s">>
                         ELSE <<"N", "o", " ", "d", "o", "c", "u", "m", "e", "n", "t", "a", "t", "i", "o", "n", " ", "m", "a", "t", "c", "h", "e", "s", " ", "f", "o", "u", "n", "d">>]
    IN IF ~isRepoCloned(d, NAME_AZTEC_PACKAGES)
       THEN [success |-> FALSE, results |-> <<>>, search |-> None,
             message |-> <<"a", "z", "t", "e", "c", "-", "p", "a", "c", "k", "a", "g", "e", "s", " ", "i", "s", " ", "n", "o", "t", " ", "c", "l", "o", "n", "e", "d", ".", " ", "R", "u", "n", " ", "a", "z", "t", "e", "c", "_", "s", "y", "n", "c", "_", "r", "e", "p", "o", "s", " ", "f", "i", "r", "s", "t", " ", "t", "o", " ", "g", "e", "t", " ", "d", "o", "c", "u", "m", "e", "n", "t", "a", "t", "i", "o", "n", ".">>]
       ELSE found(searchDocs(d, env, options.query, call))

\* part_001 98-126; found is the return of lines 116-125 for the examples
\* of doListExamples
listAztecExamples(d, env, options) ==
    LET category  == options.category
        anyCloned == \E n \in RepoNames : isRepoCloned(d, n)
        found(examples) ==
            [success |-> TRUE, examples |-> examples, search |-> [category |-> category],
             message |-> IF Len(examples) > 0
                         THEN <<"F", "o", "u", "n", "d", " ">> \o NumToString(Len(examples))
                                  \o <<" ", "e", "x", "a", "m", "p", "l", "e", " ", "c", "o", "n", "t", "r", "a", "c", "t", "s">>
                         ELSE IF Truthy(category)
                         THEN <<"N", "o", " ", "e", "x", "a", "m", "p", "l", "e", "s", " ", "f", "o", "u", "n", "d", " ", "m", "a", "t", "c", "h", "i", "n", "g", " ", "c", "a", "t", "e", "g", "o", "r", "y", " ", "'">> \o category \o <<"'">>
                         ELSE <<"N", "o", " ", "e", "x", "a", "m", "p", "l", "e", "s", " ", "f", "o", "u", "n", "d">>]
    IN IF ~anyCloned
       THEN [success |-> FALSE, examples |-> <<>>, search |-> None,
             message |-> <<"N", "o", " ", "r", "e", "p", "o", "s", "i", "t", "o", "r", "i", "e", "s", " ", "a", "r", "e", " ", "c", "l", "o", "n", "e", "d", ".", " ", "R", "u", "n", " ", "a", "z", "t", "e", "c", "_", "s", "y", "n", "c", "_", "r", "e", "p", "o", "s", " ", "f", "i", "r", "s", "t", ".">>]
       ELSE found(listExamples(d, env, category))

\* part_001 131-165; a field left out of the returned object is Undefined;
\* read is lines 146-164 for the content of the example's file, resolved
\* lines 139-164 for what findExample returned
readAztecExample(d, env, options) ==
    LET name == options.name
        read(example, content) ==
            IF ~Truthy(content)
            THEN [success |-> FALSE, example |-> example, content |-> Undefined,
                  message |-> <<"C", "o", "u", "l", "d", " ", "n", "o", "t", " ", "r", "e", "a", "d", " ", "e", "x", "a", "m", "p", "l", "e", " ", "f", "i", "l", "e", ":", " ">> \o example.path]
            ELSE [success |-> TRUE, example |-> example, content |-> content,
                  message |-> <<"R", "e", "a", "d", " ">> \o example.name \o <<" ", "f", "r", "o", "m", " ">> \o example.repo]
        resolved(example) ==
            IF example = None
            THEN [success |-> FALSE, example |-> None, content |-> Undefined,
                  message |-> <<"E", "x", "a", "m", "p", "l", "e", " ", "'">> \o name
                                  \o <<"'", " ", "n", "o", "t", " ", "f", "o", "u", "n", "d", ".", " ", "U", "s", "e", " ", "a", "z", "t", "e", "c", "_", "l", "i", "s", "t", "_", "e", "x", "a", "m", "p", "l", "e", "s", " ", "t", "o", " ", "s", "e", "e", " ", "a", "v", "a", "i", "l", "a", "b", "l", "e", " ", "e", "x", "a", "m", "p", "l", "e", "s", ".">>]
            ELSE read(example, readFile(d, example.path))
    IN resolved(findExample(d, env, name))

\* part_001 170-192; read is lines 179-191 for what readFile returned
readRepoFile(d, options) ==
    LET path == options.path
        read(content) ==
            IF ~Truthy(content)
            THEN [success |-> FALSE, content |-> Undefined,
                  message |-> <<"F", "i", "l", "e", " ", "n", "o", "t", " ", "f", "o", "u", "n", "d", ":", " ">> \o path
                                  \o <<".", " ", "M", "a", "k", "e", " ", "s", "u", "r", "e", " ", "t", "h", "e", " ", "p", "a", "t", "h", " ", "i", "s", " ", "r", "e", "l", "a", "t", "i", "v", "e", " ", "t", "o", " ", "t", "h", "e", " ", "r", "e", "p", "o", "s", " ", "d", "i", "r", "e", "c", "t", "o", "r", "y", ".">>]
            ELSE [success |-> TRUE, content |-> content, message |-> <<"R", "e", "a", "d", " ", "f", "i", "l", "e", ":", " ">> \o path]
    IN read(readFile(d, path))

\* number of tool calls in one behaviour of SpecTools
ToolCalls == 1

\* searchAztecCode(options)
SearchAztecCodeCall(options, env) ==
    /\ api.n < ToolCalls
    /\ api' = ApiCall("searchAztecCode",
                      [options |-> options, env |-> env,
                       out |-> searchAztecCode(disk, env, options)])
    /\ UNCHANGED <<baseRepos, aztecRepos, inputs, disk, sync, ret, lastCall, prevCall, nSyncs, nFails>>

\* searchAztecDocs(options)
SearchAztecDocsCall(options, env) ==
    /\ api.n < ToolCalls
    /\ api' = ApiCall("searchAztecDocs",
                      [options |-> options, env |-> env,
                       out |-> searchAztecDocs(disk, env, options)])
    /\ UNCHANGED <<baseRepos, aztecRepos, inputs, disk, sync, ret, lastCall, prevCall, nSyncs, nFails>>

\* listAztecExamples(options)
ListAztecExamplesCall(options, env) ==
    /\ api.n < ToolCalls
    /\ api' = ApiCall("listAztecExamples",
                      [options |-> options, env |-> env,
                       out |-> listAztecExamples(disk, env, options)])
    /\ UNCHANGED <<baseRepos, aztecRepos, inputs, disk, sync, ret, lastCall, prevCall, nSyncs, nFails>>

\* readAztecExample(options)
ReadAztecExampleCall(options, env) ==
    /\ api.n < ToolCalls
    /\ api' = ApiCall("readAztecExample",
                      [options |-> options, env |-> env,
                       out |-> readAztecExample(disk, env, options)])
    /\ UNCHANGED <<baseRepos, aztecRepos, inputs, disk, sync, ret, lastCall, prevCall, nSyncs, nFails>>

\* readRepoFile(options)
ReadRepoFileCall(options) ==
    /\ api.n < ToolCalls
    /\ api' = ApiCall("readRepoFile",
                      [options |-> options, out |-> readRepoFile(disk, options)])
    /\ UNCHANGED <<baseRepos, aztecRepos, inputs, disk, sync, ret, lastCall, prevCall, nSyncs, nFails>>

\* what the client of one behaviour passes: the tool and its options.  The
\* repositories named are a configured one, one that is configured and in
\* SyncedDisk only, the empty string and an unknown name; the paths are those
\* of a file, of an empty file, of a missing file and of a directory, relative
\* to the mirror root, and the absolute path of a file
InitTools ==
    \E inp \in
          { [tool |-> "searchAztecCode", env |-> env,
             options |-> [query |-> query, filePattern |-> Undefined, repo |-> repo,
                          maxResults |-> maxResults]] :
               query \in {<<"t", "r", "a", "n", "s", "f", "e", "r">>, <<"z", "z", "z">>},
               repo \in {Undefined, <<>>, NAME_AZTEC_EXAMPLES, NAME_NOIR, <<"u", "n", "k", "n", "o", "w", "n">>},
               maxResults \in {UndefinedNumber, 1}, env \in SearchEnvs }
          \cup
          { [tool |-> "searchAztecDocs", env |-> env,
             options |-> [query |-> query, section |-> section,
                          maxResults |-> UndefinedNumber]] :
               query \in {<<"t", "r", "a", "n", "s", "f", "e", "r">>, <<"z", "z", "z">>},
               section \in {Undefined, <<"c", "o", "n", "c", "e", "p", "t", "s">>, <<"t", "u", "t", "o", "r", "i", "a", "l", "s">>}, env \in SearchEnvs }
          \cup
          { [tool |-> "listAztecExamples", env |-> env, options |-> [category |-> category]] :
               category \in {Undefined, <<"t", "o", "k", "e", "n">>, <<"z", "z", "z">>}, env \in SearchEnvs }
          \cup
          { [tool |-> "readAztecExample", env |-> env, options |-> [name |-> name]] :
               name \in {<<"t", "o", "k", "e", "n">>, <<"c", "o", "u", "n", "t", "e", "r">>, <<"z", "z", "z">>}, env \in SearchEnvs }
          \cup
          { [tool |-> "readRepoFile", env |-> SearchEnv("run", FALSE),
             options |-> [path |-> path]] :
               path \in {<<"a", "z", "t", "e", "c", "-", "e", "x", "a", "m", "p", "l", "e", "s", "/", "c", "o", "u", "n", "t", "e", "r", "/", "s", "r", "c", "/", "m", "a", "i", "n", ".", "n", "r">>,
                         <<"a", "z", "t", "e", "c", "-", "e", "x", "a", "m", "p", "l", "e", "s", "/", "c", "o", "u", "n", "t", "e", "r", "/", "s", "r", "c", "/", "t", "y", "p", "e", "s", ".", "n", "r">>,
                         <<"a", "z", "t", "e", "c", "-", "e", "x", "a", "m", "p", "l", "e", "s", "/", "c", "o", "u", "n", "t", "e", "r", "/", "s", "r", "c", "/", "n", "o", "n", "e", ".", "n", "r">>,
                         <<"a", "z", "t", "e", "c", "-", "e", "x", "a", "m", "p", "l", "e", "s", "/", "c", "o", "u", "n", "t", "e", "r">>,
                         PathJoin(REPOS_DIR, <<"a", "z", "t", "e", "c", "-", "e", "x", "a", "m", "p", "l", "e", "s", "/", "c", "o", "u", "n", "t", "e", "r", "/", "s", "r", "c", "/", "m", "a", "i", "n", ".", "n", "r">>),
                         <<"/", "a", "z", "t", "e", "c", "-", "e", "x", "a", "m", "p", "l", "e", "s", "/", "c", "o", "u", "n", "t", "e", "r", "/", "s", "r", "c", "/", "m", "a", "i", "n", ".", "n", "r">>} } :
        InitWith({BASE_REPOS}, {EmptyDisk, ExamplesDisk, SyncedDisk}, inp)

NextTools ==
    \/ inputs.tool = "searchAztecCode" /\ SearchAztecCodeCall(inputs.options, inputs.env)
    \/ inputs.tool = "searchAztecDocs" /\ SearchAztecDocsCall(inputs.options, inputs.env)
    \/ inputs.tool = "listAztecExamples" /\ ListAztecExamplesCall(inputs.options, inputs.env)
    \/ inputs.tool = "readAztecExample" /\ ReadAztecExampleCall(inputs.options, inputs.env)
    \/ inputs.tool = "readRepoFile" /\ ReadRepoFileCall(inputs.options)

SpecTools == InitTools /\ [][NextTools]_vars

-----------------------------------------------------------------------------
(* Overlapping sync requests: the request handler of src/src/index.ts is
   async and holds no lock, so a second aztec_sync_repos request is handled
   while the first one waits for a VCS step.  In SpecOverlap sync maps each
   request to the locals of its syncRepos call.  A cloneRepo call runs up to
   its first await in one step (the removal, the choice between clone and
   update, the start of the first VCS operation) and finishes in a later
   one; between the two, cur holds the descriptor passed and the outcome
   its VCS steps are heading for.  When two calls work on one path the
   checkout is left as the call that finishes last leaves it, which is one
   of the outcomes the race can have. *)

\* number of requests in one behaviour of SpecOverlap
OverlapRequests == 2
\* number of cloneRepo calls of SpecOverlap in which a VCS step fails
OverlapFails == 1

\* sync.ts 51-107: the awaited steps of one call in the order it takes them:
\* aztec-packages, the pin lookup, the noir-lang repositories, the others
SyncPlan(reposToSync) ==
    (IF HasAztecPackages(reposToSync)
     THEN <<[kind |-> "clone", config |-> FindAztecPackages(reposToSync)]>> ELSE <<>>)
    \o <<[kind |-> "pin", config |-> None]>>
    \o [k \in 1..Len(NoirRepos(reposToSync)) |->
          [kind |-> "clone", config |-> NoirRepos(reposToSync)[k]]]
    \o [k \in 1..Len(OtherRepos(reposToSync)) |->
          [kind |-> "clone", config |-> OtherRepos(reposToSync)[k]]]

\* index.ts 191-196 and sync.ts 28-48: request r arrives and its call starts
OverlapStart(r, force, repoNames) ==
    LET reposToSync == FilterRepos(AZTEC_REPOS, repoNames) IN
    /\ r = nSyncs + 1
    /\ r <= OverlapRequests
    /\ nSyncs' = nSyncs + 1
    /\ sync' = [sync EXCEPT ![r] =
                  [pc |-> IF Len(reposToSync) = 0 THEN "done" ELSE "run",
                   force |-> force, plan |-> SyncPlan(reposToSync), i |-> 1,
                   noirCommit |-> Undefined, cur |-> None, results |-> <<>>]]
    /\ UNCHANGED <<baseRepos, aztecRepos, inputs, disk, ret, lastCall, prevCall, nFails, api>>

\* git.ts 42-57 and the start of the first VCS operation: cloneRepo up to
\* its first await
OverlapBegin(r, fail) ==
    /\ sync[r].pc = "run"
    /\ sync[r].cur = None
    /\ sync[r].i <= Len(sync[r].plan)
    /\ sync[r].plan[sync[r].i].kind = "clone"
    /\ fail # {} => nFails < OverlapFails
    /\ nFails' = IF fail # {} THEN nFails + 1 ELSE nFails
    /\ LET config == sync[r].plan[sync[r].i].config
           passed == NoirConfig(config, sync[r].noirCommit)
       IN /\ disk' = IF Removes(disk, passed, sync[r].force)
                     THEN [disk EXCEPT ![passed.name] = Absent] ELSE disk
          /\ sync' = [sync EXCEPT ![r].cur =
                        [config |-> passed,
                         out |-> cloneRepo(disk, passed, sync[r].force, fail)]]
    /\ UNCHANGED <<baseRepos, aztecRepos, inputs, ret, lastCall, prevCall, nSyncs, api>>

\* the awaited cloneRepo call settles: its VCS steps have left the checkout
\* as they leave it, and the entry is pushed (sync.ts 60-67, 82-93, 99-106)
OverlapEnd(r) ==
    /\ sync[r].pc = "run"
    /\ sync[r].cur # None
    /\ LET name   == sync[r].cur.config.name
           out    == sync[r].cur.out
           config == sync[r].plan[sync[r].i].config
       IN /\ disk' = [disk EXCEPT ![name] = out.disk[name]]
          /\ sync' = [sync EXCEPT
                        ![r].results = Append(@, ResultEntry(name, out,
                                          FinalStatus(config, sync[r].noirCommit, out.value))),
                        ![r].cur = None,
                        ![r].i = @ + 1]
    /\ UNCHANGED <<baseRepos, aztecRepos, inputs, ret, lastCall, prevCall, nSyncs, nFails, api>>

\* sync.ts 71: the pin lookup
OverlapPin(r, listing) ==
    /\ sync[r].pc = "run"
    /\ sync[r].i <= Len(sync[r].plan)
    /\ sync[r].plan[sync[r].i].kind = "pin"
    /\ sync' = [sync EXCEPT ![r].noirCommit = getNoirCommitFromAztec(disk, listing),
                            ![r].i = @ + 1]
    /\ UNCHANGED <<baseRepos, aztecRepos, inputs, disk, ret, lastCall, prevCall, nSyncs, nFails, api>>

\* sync.ts 109-120 and index.ts 197-204: the call returns and the request
\* is answered
OverlapReturn(r) ==
    /\ sync[r].pc = "run"
    /\ sync[r].i > Len(sync[r].plan)
    /\ sync' = [sync EXCEPT ![r].pc = "done"]
    /\ UNCHANGED <<baseRepos, aztecRepos, inputs, disk, ret, lastCall, prevCall, nSyncs, nFails, api>>

\* no request has arrived; the requests name noir alone, or aztec-packages
\* and noir
InitOverlap ==
    /\ baseRepos = BASE_REPOS
    /\ aztecRepos = StampRepos(baseRepos, Undefined)
    /\ inputs = [filters |-> {<<NAME_NOIR>>, <<NAME_AZTEC_PACKAGES, NAME_NOIR>>}]
    /\ disk \in {EmptyDisk, SyncedDisk}
    /\ sync = [r \in 1..OverlapRequests |->
                 [pc |-> "idle", force |-> FALSE, plan |-> <<>>, i |-> 1,
                  noirCommit |-> Undefined, cur |-> None, results |-> <<>>]]
    /\ ret = None
    /\ lastCall = None
    /\ prevCall = None
    /\ nSyncs = 0
    /\ nFails = 0
    /\ api = None

NextOverlap ==
    \E r \in 1..OverlapRequests :
        \/ \E force \in BOOLEAN, repoNames \in inputs.filters : OverlapStart(r, force, repoNames)
        \/ \E fail \in FailChoices : OverlapBegin(r, fail)
        \/ OverlapEnd(r)
        \/ \E listing \in LsTreeOutcomes : OverlapPin(r, listing)
        \/ OverlapReturn(r)

SpecOverlap == InitOverlap /\ [][NextOverlap]_vars

-----------------------------------------------------------------------------
(* Vocabulary of the properties *)

\* the names the caller asked for: every configured name without a filter
Wanted ==
    IF sync.repoNames = UndefinedArray THEN RepoNames
    ELSE {n \in RepoNames : \E k \in 1..Len(sync.repoNames) : sync.repoNames[k] = n}

\* 0 for the primary monorepo, 1 for the noir-lang namespace, 2 for the rest
Rank(n) ==
    IF n = NAME_AZTEC_PACKAGES THEN 0
    ELSE IF n \in {NAME_NOIR, NAME_NOIR_EXAMPLES} THEN 1 ELSE 2

\* the place of descriptor n in the configured order
Pos(n) == CHOOSE i \in 1..Len(baseRepos) : baseRepos[i].name = n

\* s carries the failure marker: "error" in any mix of cases
HasMarker(s) ==
    \E i \in 1..(Len(s) - 4) :
        /\ s[i] \in {"e", "E"}
        /\ s[i + 1] \in {"r", "R"}
        /\ s[i + 2] \in {"r", "R"}
        /\ s[i + 3] \in {"o", "O"}
        /\ s[i + 4] \in {"r", "R"}

\* s starts with prefix
StartsWith(s, prefix) ==
    Len(s) >= Len(prefix) /\ SubSeq(s, 1, Len(prefix)) = prefix

\* a syncRepos call has returned and no other has started since
Returned == ret # None

-----------------------------------------------------------------------------
(* C1: the outcomes of a syncRepos call are recorded in this order, whatever
   the filter and the configured order: aztec-packages first when it was
   asked for, then the noir-lang descriptors in their configured relative
   order, then the remaining descriptors in their configured relative
   order. *)
C1_OutcomeOrder ==
    LET R == sync.results IN
    /\ \A i, j \in 1..Len(R) :
          i < j => \/ Rank(R[i].name) < Rank(R[j].name)
                   \/ /\ Rank(R[i].name) = Rank(R[j].name)
                      /\ Pos(R[i].name) < Pos(R[j].name)
    /\ (Returned /\ NAME_AZTEC_PACKAGES \in Wanted) =>
          /\ Len(ret.repos) > 0
          /\ ret.repos[1].name = NAME_AZTEC_PACKAGES
    /\ Returned => ret.repos = R

\* a full batch has returned under the reversed configured order
C1_Witness ==
    /\ Returned
    /\ Len(ret.repos) = 5
    /\ baseRepos[1].name = NAME_NOIR_EXAMPLES
    /\ ret.repos[2].name = NAME_NOIR_EXAMPLES
    /\ ret.repos[3].name = NAME_NOIR

(* C6: for a non-empty batch, success is true exactly when no status carries
   the marker "error" in any case; the message is the success summary
   exactly when success is true and the partial-failure summary otherwise. *)
C6_SuccessIffNoMarker ==
    (Returned /\ Len(ret.repos) > 0) =>
        /\ ret.success <=> \A k \in 1..Len(ret.repos) : ~HasMarker(ret.repos[k].status)
        /\ ret.success <=> StartsWith(ret.message, <<"S", "u", "c", "c", "e", "s", "s", "f", "u", "l", "l", "y", " ", "s", "y", "n", "c", "e", "d", " ">>)
        /\ ~ret.success <=> ret.message = <<"S", "o", "m", "e", " ", "r", "e", "p", "o", "s", "i", "t", "o", "r", "i", "e", "s", " ", "f", "a", "i", "l", "e", "d", " ", "t", "o", " ", "s", "y", "n", "c">>

\* a batch has returned with one failure-marked outcome among clean ones
C6_Witness ==
    /\ Returned
    /\ Len(ret.repos) >= 2
    /\ ~ret.success
    /\ \E k \in 1..Len(ret.repos) : HasMarker(ret.repos[k].status)
    /\ \E k \in 1..Len(ret.repos) : ~HasMarker(ret.repos[k].status)

(* C8: syncRepos calls cloneRepo once for every descriptor asked for and for
   no other, and records one outcome per call, also when a name is repeated
   in the filter, when a pin is found for a repository that was not asked
   for, and when an earlier call raised an Error. *)
C8_ExactlyFiltered ==
    /\ \A k \in 1..Len(sync.calls) : sync.calls[k].name \in Wanted
    /\ \A i, j \in 1..Len(sync.calls) : i < j => sync.calls[i].name # sync.calls[j].name
    /\ Len(sync.results) = Len(sync.calls)
    /\ \A k \in 1..Len(sync.calls) : sync.results[k].name = sync.calls[k].name
    /\ Returned =>
          /\ ret.repos = sync.results
          /\ \A n \in Wanted : \E k \in 1..Len(sync.calls) : sync.calls[k].name = n

\* a batch whose filter repeats a name has returned after its first call raised
C8_Witness ==
    /\ Returned
    /\ sync.repoNames = <<NAME_NOIR, NAME_AZTEC_STARTER, NAME_NOIR, <<"n", "o", "n", "e", "x", "i", "s", "t", "e", "n", "t">>>>
    /\ Len(ret.repos) = 2
    /\ StartsWith(ret.repos[1].status, <<"E", "r", "r", "o", "r", ":", " ">>)
    /\ ~HasMarker(ret.repos[2].status)

(* C9: when the filter matches no configured descriptor, the empty list
   included, syncRepos returns at once with success false, no outcomes and
   the effective version; it calls cloneRepo for nothing and leaves every
   checkout as it was. *)
C9_NoMatchReturns ==
    [][ (sync.pc = "idle" /\ nSyncs' = nSyncs + 1 /\ Wanted' = {}) =>
           /\ sync'.pc = "idle"
           /\ ret' # None
           /\ ret'.success = FALSE
           /\ ret'.repos = <<>>
           /\ ret'.version = (IF sync'.version \in {Undefined, <<>>}
                              THEN DEFAULT_AZTEC_VERSION ELSE sync'.version)
           /\ sync'.calls = <<>>
           /\ disk' = disk
           /\ lastCall' = lastCall ]_vars

\* a call with the empty list for a filter has returned, over existing checkouts
C9_Witness ==
    /\ Returned
    /\ sync.repoNames = <<>>
    /\ sync.version = V_ERR
    /\ ret.repos = <<>>
    /\ disk = SyncedDisk

(* Vocabulary of the properties about single cloneRepo calls *)

\* call issued an operation named op
Issued(call, op) == \E k \in 1..Len(call.ops) : call.ops[k].op = op

\* the last cloneRepo call belongs to the syncRepos call in progress, or to
\* the one that has just returned, and its outcome is the last one recorded
LastCallRecorded ==
    lastCall # None /\ lastCall.sid = nSyncs /\ Len(sync.results) > 0

LastStatus == sync.results[Len(sync.results)].status

\* the descriptor syncRepos resolved for name, before any pin is applied
Configured(name) ==
    LET repos == IF sync.version \in {Undefined, <<>>} THEN StampRepos(baseRepos, Undefined)
                 ELSE StampRepos(baseRepos, sync.version)
    IN repos[Pos(name)]

(* C2: when the pin lookup yields a commit c, noir is materialized with
   commit c and no branch and its outcome names ref kind "commit" and the
   value c; when it yields none, noir is materialized as configured; no
   other descriptor is changed before it is materialized. *)
C2_PinPropagation ==
    LastCallRecorded =>
        IF lastCall.config.name = NAME_NOIR /\ sync.noirCommit # Undefined
        THEN /\ lastCall.config.commit = sync.noirCommit
             /\ lastCall.config.branch = Undefined
             /\ lastCall.end = "ok" =>
                   /\ Includes(LastStatus, <<"c", "o", "m", "m", "i", "t">>)
                   /\ Includes(LastStatus, sync.noirCommit)
        ELSE lastCall.config = Configured(lastCall.config.name)

(* C3: after a syncRepos call in which the pin lookup yielded commit c and
   the noir outcome carries no failure marker, the noir checkout is at
   commit c. *)
C3_NoirAtPinnedCommit ==
    (Returned /\ sync.noirCommit # Undefined) =>
        \A k \in 1..Len(ret.repos) :
            (ret.repos[k].name = NAME_NOIR /\ ~HasMarker(ret.repos[k].status)) =>
                /\ disk[NAME_NOIR].git
                /\ disk[NAME_NOIR].head = HeadAt("commit", sync.noirCommit)

(* C4: after a sync with version v that reports no failure for an
   AztecProtocol repository, that repository's checkout is at tag v. *)
C4_PrimaryAtVersionTag ==
    Returned =>
        \A k \in 1..Len(ret.repos) :
            (/\ ret.repos[k].name \in {NAME_AZTEC_PACKAGES, NAME_AZTEC_EXAMPLES, NAME_AZTEC_STARTER}
             /\ ~HasMarker(ret.repos[k].status)) =>
                /\ disk[ret.repos[k].name].git
                /\ disk[ret.repos[k].name].head = HeadAt("tag", ret.version)

(* C5: two cloneRepo calls in succession with force false on a descriptor
   whose checkout exists both take the update path: each returns an update
   outcome, neither issues a clone, neither removes the directory. *)
C5_UpdateTwice ==
    (/\ prevCall # None /\ lastCall # None
     /\ prevCall.config.name = lastCall.config.name
     /\ ~prevCall.force /\ ~lastCall.force
     /\ prevCall.wasCloned) =>
        \A call \in {prevCall, lastCall} :
            /\ call.wasCloned
            /\ call.path = "update"
            /\ call.end \in {"ok", "failed"}
            /\ StartsWith(call.value, T_Updated) \/ StartsWith(call.value, <<"F", "a", "i", "l", "e", "d", " ", "t", "o", " ", "u", "p", "d", "a", "t", "e", " ">>)
            /\ ~StartsWith(call.value, <<"C", "l", "o", "n", "e", "d", " ">>)
            /\ ~Issued(call, "clone")
            /\ ~Issued(call, "rmSync")
            /\ disk[call.config.name].git

\* the noir checkout has been updated by two unforced calls in a row
C5_Witness ==
    /\ prevCall # None /\ lastCall # None
    /\ prevCall.config.name = NAME_NOIR /\ lastCall.config.name = NAME_NOIR
    /\ ~prevCall.force /\ ~lastCall.force
    /\ prevCall.wasCloned
    /\ prevCall.sid = 1 /\ lastCall.sid = 2
    /\ lastCall.value = T_Updated \o NAME_NOIR

(* C7: a cloneRepo call that failed (it raised, or its update gave up after
   the pull) is recorded with a status that carries the failure marker and
   makes the batch unsuccessful, and a call that succeeded is recorded with
   a status without the marker, whatever the name, the ref and the sparse
   paths are. *)
C7_MarkerSoundAndComplete ==
    /\ \A k \in 1..Len(sync.calls) :
          sync.calls[k].end # "ok" <=> HasMarker(sync.results[k].status)
    /\ (Returned /\ Len(ret.repos) > 0) =>
          (ret.success <=> \A k \in 1..Len(sync.calls) : sync.calls[k].end = "ok")

(* C10: cloneRepo removes the checkout directory exactly when force is true
   and something exists at the path; after a removal it takes the clone
   path; and no step of the system removes or replaces an existing checkout
   unless it is a cloneRepo call on it with force true. *)
C10_RemovalOnlyWhenForced ==
    /\ [](lastCall # None =>
            /\ Issued(lastCall, "rmSync") <=> (lastCall.force /\ lastCall.hadDir)
            /\ Issued(lastCall, "rmSync") => lastCall.path = "clone")
    /\ [][ \A n \in RepoNames :
              (/\ disk[n].dir
               /\ \/ ~disk'[n].dir
                  \/ ~disk'[n].git
                  \/ /\ lastCall' # lastCall
                     /\ lastCall'.config.name = n
                     /\ lastCall'.path = "clone") =>
                  /\ lastCall' # lastCall
                  /\ lastCall'.config.name = n
                  /\ lastCall'.force ]_vars

\* a forced call has removed an existing checkout and cloned it again
C10_Witness ==
    /\ lastCall # None
    /\ lastCall.force /\ lastCall.hadDir
    /\ Issued(lastCall, "rmSync")
    /\ Issued(lastCall, "clone")
    /\ lastCall.end = "ok"
    /\ disk[lastCall.config.name].git

-----------------------------------------------------------------------------
(* Properties of the clone/update engine called directly *)

\* the repository was cloned and its shallow fetch, or the hard reset after
\* it, failed
PrimaryUpdateFailed(r) == 1 \in r.fail \/ 2 \in r.fail

(* C11: updateRepo on a cloned repository runs a shallow fetch, then a hard
   reset to origin/HEAD; the pull is attempted exactly when the fetch or the
   reset failed; the result is "Updated <name>" when either path succeeds
   and a "Failed to update <name>" string when the pull fails too; it never
   throws because of a VCS failure, and throws when the repository is not
   cloned. *)
C11_UpdateFallback ==
    api.fn = "updateRepo" =>
        LET r == api.rec IN
        IF r.wasCloned
        THEN /\ r.end # "threw"
             /\ r.ops[1].op = "fetch" /\ r.ops[1].flags = <<"--depth=1">>
             /\ 1 \notin r.fail =>
                   /\ r.ops[2].op = "reset"
                   /\ r.ops[2].flags = <<"--hard">>
                   /\ r.ops[2].ref = <<"o","r","i","g","i","n","/","H","E","A","D">>
             /\ 1 \in r.fail => ~Issued(r, "reset")
             /\ Issued(r, "pull") <=> PrimaryUpdateFailed(r)
             /\ Issued(r, "pull") => r.ops[Len(r.ops)].op = "pull"
             /\ (~PrimaryUpdateFailed(r) \/ 3 \notin r.fail) =>
                   r.end = "ok" /\ r.value = T_Updated \o r.repoName
             /\ (PrimaryUpdateFailed(r) /\ 3 \in r.fail) =>
                   /\ r.end = "failed"
                   /\ StartsWith(r.value, <<"F", "a", "i", "l", "e", "d", " ", "t", "o", " ", "u", "p", "d", "a", "t", "e", " ">> \o r.repoName)
        ELSE /\ r.end = "threw"
             /\ r.ops = <<>>
             /\ disk[r.repoName] = r.before

\* the reset failed after a good fetch, and the pull failed too
C11_Witness ==
    /\ api.fn = "updateRepo"
    /\ api.rec.wasCloned
    /\ api.rec.fail = {2, 3}
    /\ Len(api.rec.ops) = 3
    /\ api.rec.end = "failed"

(* C12: the pin lookup returns the commit recorded for the embedded noir
   repository when the tree listing has the expected format, and returns
   none, without throwing, when the aztec-packages checkout is missing, the
   output has another format or the VCS command errors; a syncRepos call
   whose lookup yielded none still materializes every wanted companion and
   remaining descriptor. *)
C12_PinLookupIsTotal ==
    /\ \A listing \in LsTreeOutcomes :
          LET c == getNoirCommitFromAztec(disk, listing) IN
          /\ (disk[NAME_AZTEC_PACKAGES].git /\ listing = LsTree(FALSE, LS_GOOD)) => c = PIN_COMMIT
          /\ ~disk[NAME_AZTEC_PACKAGES].git => c = Undefined
          /\ listing.threw => c = Undefined
          /\ listing.text \in {<<"u","n","e","x","p","e","c","t","e","d"," ","o","u","t","p","u","t"," ","f","o","r","m","a","t">>, <<>>} => c = Undefined
    /\ (Returned /\ Len(ret.repos) > 0 /\ sync.noirCommit = Undefined) =>
          \A n \in Wanted :
              Rank(n) >= 1 =>
                 /\ \E k \in 1..Len(sync.calls) : sync.calls[k].name = n
                 /\ \E k \in 1..Len(ret.repos) : ret.repos[k].name = n

\* the monorepo is cloned, its lookup found no pin, and the sync went on to
\* materialize noir and the remaining repositories
C12_Witness ==
    /\ Returned
    /\ disk[NAME_AZTEC_PACKAGES].git
    /\ sync.noirCommit = Undefined
    /\ sync.repoNames = UndefinedArray
    /\ Len(ret.repos) = 5
    /\ lastCall.sid = nSyncs
    /\ lastCall.config.name = NAME_AZTEC_STARTER

-----------------------------------------------------------------------------
(* Properties of the code search *)

\* the last call was a search that got as far as starting the search process
Searched == api.fn = "searchCode" /\ api.rec.status # "not run"

(* C13: searchCode runs the manual scan exactly when the search process
   failed to execute (missing binary, timeout, a run that ended in an
   error); a search process that ran to completion and found nothing gives
   an empty result without the manual scan. *)
C13_FallbackIffPrimaryFailed ==
    Searched =>
        /\ api.rec.fallback <=> api.rec.status \in {"missing", "timeout", "exit 2"}
        /\ api.rec.status = "exit 1" => (api.rec.results = <<>> /\ ~api.rec.fallback)

\* the result limit and the files of the manual scan of the last search
SearchLimit ==
    IF api.rec.options.maxResults = UndefinedNumber THEN 50 ELSE api.rec.options.maxResults

ScannedFiles ==
    LET filePattern == IF api.rec.options.filePattern = Undefined THEN <<"*", ".", "n", "r">>
                       ELSE api.rec.options.filePattern
        searchPath  == IF Truthy(api.rec.options.repo) THEN getRepoPath(api.rec.options.repo)
                       ELSE REPOS_DIR
    IN globbySync(disk, api.rec.env, Replace(filePattern, <<"*", ".">>, <<"*", "*", "/", "*", ".">>),
                  searchPath)

\* the scanned lines that contain the query as a literal string, as
\* <<file, line number>> pairs
LiteralLines ==
    LET files == ScannedFiles
        fold(s) == IF api.rec.options.caseSensitive THEN s ELSE ToLowerCase(s)
    IN { <<k, i>> \in (1..Len(files)) \X (1..3) :
            /\ i <= Len(files[k].lines)
            /\ Includes(fold(files[k].lines[i]), fold(api.rec.query)) }

(* C14: when the manual scan is given a query that is not a valid regular
   expression, the query is matched as a literal string: the scan returns
   a match for every scanned line that contains it, up to the result
   limit. *)
C14_InvalidRegexMatchedLiterally ==
    (Searched /\ api.rec.fallback /\ InvalidRegExp(api.rec.query)) =>
        Len(api.rec.results) =
            (IF Cardinality(LiteralLines) < SearchLimit THEN Cardinality(LiteralLines)
             ELSE SearchLimit)

(* C15: whichever strategy produced them, searchCode returns no more
   results than the limit the caller gave (50 when the caller gave none). *)
C15_ResultLimit ==
    api.fn = "searchCode" => Len(api.rec.results) <= SearchLimit

\* the search process found more matching lines than the limit allows and
\* the result was cut to the limit
C15_Witness ==
    /\ Searched
    /\ api.rec.status = "exit 0"
    /\ Cardinality(LiteralLines) > SearchLimit
    /\ Len(api.rec.results) = SearchLimit

-----------------------------------------------------------------------------
(* Properties of the command line *)

\* where character i of str stands in its escaped form: after the
\* characters before it and one backslash for each special character up to it
EscapedPos(str, i) == i + Cardinality({j \in 1..i : str[j] \in ShellSpecial})

(* C16: in the command the search runs, each double quote, dollar sign,
   grave accent, backslash and exclamation mark of the query has exactly one
   backslash added before it, and every other character of the query,
   regular expression operators included, stands unchanged and in order. *)
C16_EscapeShell ==
    api.fn = "escapeShell" =>
        LET str == api.rec.str
            out == api.rec.out
            end == <<"\"", " ", "\"">> \o REPOS_DIR \o <<"\"">>
            at  == Len(api.rec.command) - Len(end) - Len(out)
        IN /\ Len(out) = EscapedPos(str, Len(str))
           /\ \A i \in 1..Len(str) :
                 /\ out[EscapedPos(str, i)] = str[i]
                 /\ str[i] \in ShellSpecial => out[EscapedPos(str, i) - 1] = "\\"
           /\ at >= 1
           /\ api.rec.command[at] = "\""
           /\ SubSeq(api.rec.command, at + 1, Len(api.rec.command)) = out \o end

\* a query with an exclamation mark between two regular expression operators
C16_Witness ==
    /\ api.fn = "escapeShell"
    /\ api.rec.str = <<"|", "!", "*">>
    /\ api.rec.out = <<"|", "\\", "!", "*">>

-----------------------------------------------------------------------------
(* Properties of the example lookup *)

\* the positions, in discovery order, of the examples whose name is the
\* wanted name up to case, and of those whose name or path contains it
ExactAt ==
    { k \in 1..Len(api.rec.examples) :
         ToLowerCase(api.rec.examples[k].name) = ToLowerCase(api.rec.name) }

PartialAt ==
    { k \in 1..Len(api.rec.examples) :
         \/ Includes(ToLowerCase(api.rec.examples[k].name), ToLowerCase(api.rec.name))
         \/ Includes(ToLowerCase(api.rec.examples[k].path), ToLowerCase(api.rec.name)) }

(* C17: findExample returns an example whose name equals the wanted name up
   to case whenever there is one, wherever it stands in the discovery
   order; otherwise the first example, in discovery order, whose name or
   path contains the wanted name up to case; otherwise nothing. *)
C17_ExactMatchFirst ==
    api.fn = "findExample" =>
        /\ ExactAt # {} =>
              /\ api.rec.match # None
              /\ ToLowerCase(api.rec.match.name) = ToLowerCase(api.rec.name)
        /\ (ExactAt = {} /\ PartialAt # {}) =>
              api.rec.match =
                  api.rec.examples[CHOOSE k \in PartialAt : \A j \in PartialAt : k <= j]
        /\ PartialAt = {} => api.rec.match = None

\* the exact match is the last example discovered, after two others that
\* contain the wanted name
C17_Witness ==
    /\ api.fn = "findExample"
    /\ api.rec.name = <<"t", "o", "k", "e", "n">>
    /\ ExactAt = {4}
    /\ PartialAt = {2, 3, 4}
    /\ api.rec.match = api.rec.examples[4]

-----------------------------------------------------------------------------
(* Properties of the registry *)

(* C18: getAztecRepos(v) returns the base descriptors in their configured
   order, each with its name, url, branch and sparse paths as configured,
   with tag v (the default version when no version is given) on the
   descriptors whose url is in the AztecProtocol namespace and no tag on
   the others. *)
C18_StampByNamespace ==
    api.fn = "getAztecRepos" =>
        LET v     == api.rec.version
            tag   == IF v \in {Undefined, <<>>} THEN DEFAULT_AZTEC_VERSION ELSE v
            base  == api.rec.base
            repos == api.rec.repos
        IN /\ Len(repos) = Len(base)
           /\ \A i \in 1..Len(base) :
                 /\ repos[i].name = base[i].name
                 /\ repos[i].url = base[i].url
                 /\ repos[i].branch = base[i].branch
                 /\ repos[i].sparse = base[i].sparse
                 /\ repos[i].tag =
                       IF StartsWithSeq(base[i].url, <<"h", "t", "t", "p", "s", ":", "/", "/", "g", "i", "t", "h", "u", "b", ".", "c", "o", "m", "/", "A", "z", "t", "e", "c", "P", "r", "o", "t", "o", "c", "o", "l", "/">>)
                       THEN tag ELSE Undefined

\* a version stamped on a registry configured in the reverse order
C18_Witness ==
    /\ api.fn = "getAztecRepos"
    /\ api.rec.version = V_2
    /\ api.rec.base[1].name = NAME_NOIR_EXAMPLES
    /\ api.rec.repos[1].tag = Undefined
    /\ api.rec.repos[5].name = NAME_AZTEC_PACKAGES
    /\ api.rec.repos[5].tag = V_2

\* a sync given no version has returned after it cloned noir at the pinned
\* commit: its noir loop built the overriding descriptor from AZTEC_REPOS
PinOverrideDone ==
    /\ Returned
    /\ ~Truthy(sync.version)
    /\ sync.noirCommit = PIN_COMMIT
    /\ \E k \in 1..Len(sync.calls) : sync.calls[k].name = NAME_NOIR

(* C19: descriptors are never mutated.  After any sequence of getAztecRepos
   and syncRepos calls, with any version and any discovered pin, the base
   registry and AZTEC_REPOS hold the names, urls, tags, branches and sparse
   paths they held at process start; the descriptors getAztecRepos returns
   and the one the pin override hands to cloneRepo are other objects. *)
C19_DescriptorsNeverMutated ==
    /\ \E p \in BatchOrders :
          /\ baseRepos = Permute(BASE_REPOS, p)
          /\ aztecRepos = [i \in 1..Len(p) |->
                              [BASE_REPOS[p[i]] EXCEPT
                                 !.tag = IF BASE_REPOS[p[i]].name \in
                                            {NAME_AZTEC_PACKAGES, NAME_AZTEC_EXAMPLES,
                                             NAME_AZTEC_STARTER}
                                         THEN DEFAULT_AZTEC_VERSION ELSE Undefined]]
    /\ \A i \in 1..Len(baseRepos) : baseRepos[i].tag = Undefined /\ baseRepos[i].commit = Undefined
    /\ \A i \in 1..Len(aztecRepos) : aztecRepos[i].commit = Undefined
    /\ api.fn = "getAztecRepos" => api.rec.base = baseRepos

\* both have happened: getAztecRepos stamped a version and a sync overrode
\* the noir descriptor of AZTEC_REPOS with the pin, which cloneRepo received
C19_Witness ==
    /\ api.fn = "getAztecRepos"
    /\ api.rec.version = V_ERR
    /\ api.rec.repos # baseRepos
    /\ PinOverrideDone
    /\ lastCall.config.name = NAME_NOIR
    /\ lastCall.config.commit = PIN_COMMIT
    /\ lastCall.config.branch = Undefined

-----------------------------------------------------------------------------
(* Properties of the clone path *)

\* the last call was a cloneRepo call that took the clone path with a
\* descriptor that has sparse paths and a tag
SparseTagClone ==
    /\ api.fn = "cloneRepo"
    /\ lastCall.path = "clone"
    /\ lastCall.config.sparse # UndefinedArray
    /\ Len(lastCall.config.sparse) > 0
    /\ Truthy(lastCall.config.tag)

\* the VCS operations of the last call, without the removal that precedes them
VcsOps == SelectSeq(lastCall.ops, LAMBDA o : o.op # "rmSync")

\* the position of the first VCS step of the last call the environment made
\* fail, n + 1 when none of its n steps failed
FirstFailure(n) ==
    IF api.rec.fail \cap (1..n) = {} THEN n + 1
    ELSE CHOOSE k \in api.rec.fail \cap (1..n) : \A j \in api.rec.fail \cap (1..n) : k <= j

(* C20: a sparse clone at a tag issues, in this order: the clone with blob
   filtering, sparse and no checkout; the sparse-checkout set with the
   descriptor's paths; the fetch of exactly the tag's ref into the local
   tag namespace; the checkout of the tag.  A step is issued only when
   every step before it succeeded, and the call returns its success string
   only when the checkout succeeded. *)
C20_SparseTagOrder ==
    SparseTagClone =>
        LET config == lastCall.config
            ref    == <<"r", "e", "f", "s", "/", "t", "a", "g", "s", "/">> \o config.tag
            order  == << GitOp("clone", <<"--filter=blob:none", "--sparse", "--no-checkout">>,
                               Undefined, <<>>),
                         GitOp("sparse-checkout set", <<>>, Undefined, config.sparse),
                         GitOp("fetch", <<"--depth=1", "origin">>, ref \o <<":">> \o ref, <<>>),
                         GitOp("checkout", <<>>, config.tag, <<>>) >>
            first  == FirstFailure(4)
        IN /\ VcsOps = SubSeq(order, 1, IF first > 4 THEN 4 ELSE first)
           /\ lastCall.end = "ok" <=> first > 4
           /\ lastCall.end = "ok" =>
                 /\ StartsWithSeq(lastCall.value, <<"C", "l", "o", "n", "e", "d", " ">> \o config.name)
                 /\ disk[config.name].head = HeadAt("tag", config.tag)
           /\ lastCall.end # "ok" => lastCall.end = "threw"

\* the monorepo cloned at the default version's tag: all four steps, then
\* the success string
C20_Witness ==
    /\ SparseTagClone
    /\ lastCall.config.name = NAME_AZTEC_PACKAGES
    /\ Len(VcsOps) = 4
    /\ VcsOps[4].op = "checkout"
    /\ lastCall.end = "ok"

-----------------------------------------------------------------------------
(* Properties of the clone path for a descriptor with a commit *)

\* the last cloneRepo call took the clone path with a descriptor that has
\* sparse paths, a commit and no tag, and returned
SparseCommitCloned ==
    /\ lastCall # None
    /\ lastCall.path = "clone"
    /\ lastCall.end = "ok"
    /\ lastCall.config.sparse # UndefinedArray
    /\ Len(lastCall.config.sparse) > 0
    /\ Truthy(lastCall.config.commit)
    /\ ~Truthy(lastCall.config.tag)

(* C21: a sparse clone at a commit issues the clone with blob filtering,
   sparse and no checkout, then the fetch of exactly that commit from
   origin, then the checkout of that commit, with the sparse paths set; the
   string it returns names the ref kind "commit". *)
C21_SparseCommitOrder ==
    SparseCommitCloned =>
        LET config == lastCall.config
            ops    == lastCall.ops
        IN /\ \E i, j, k \in 1..Len(ops) :
                 /\ i < j /\ j < k
                 /\ ops[i] = GitOp("clone", <<"--filter=blob:none", "--sparse", "--no-checkout">>,
                                   Undefined, <<>>)
                 /\ ops[j].op = "fetch" /\ ops[j].ref = config.commit
                 /\ ops[k].op = "checkout" /\ ops[k].ref = config.commit
           /\ \E i \in 1..Len(ops) :
                 ops[i].op = "sparse-checkout set" /\ ops[i].paths = config.sparse
           /\ Includes(lastCall.value, <<"(", "c", "o", "m", "m", "i", "t">>)

\* the last client call was a cloneRepo call that took the clone path and
\* returned its success string
CloneReturned ==
    /\ api.fn = "cloneRepo"
    /\ lastCall.path = "clone"
    /\ lastCall.end = "ok"

\* the word the outcome string uses for a kind of ref
KindWord(kind) ==
    CASE kind = "tag" -> <<"t", "a", "g">>
      [] kind = "branch" -> <<"b", "r", "a", "n", "c", "h">>
      [] kind = "commit" -> <<"c", "o", "m", "m", "i", "t">>
      [] OTHER -> Undefined

(* C22: the string a successful clone returns names the repository, the ref
   that was checked out and its kind (tag, branch or commit) and, for a
   sparse descriptor, the sparse paths.  For a descriptor with both a tag
   and a branch, the ref is the tag and the branch is not passed to the
   clone. *)
C22_OutcomeNamesRef ==
    CloneReturned =>
        LET config == lastCall.config
            head   == disk[config.name].head
            value  == lastCall.value
        IN /\ StartsWithSeq(value, <<"C", "l", "o", "n", "e", "d", " ">> \o config.name \o <<" ", "@", " ">>)
           /\ head.kind \in {"tag", "branch", "commit"}
           /\ Includes(value, <<" ", "@", " ">> \o head.ref \o <<" ", "(">> \o KindWord(head.kind))
           /\ (config.sparse # UndefinedArray /\ Len(config.sparse) > 0) =>
                 Includes(value, <<"s", "p", "a", "r", "s", "e", ":", " ">> \o Join(config.sparse, <<",", " ">>))
           /\ (Truthy(config.tag) /\ Truthy(config.branch)) =>
                 /\ head = HeadAt("tag", config.tag)
                 /\ \A k \in 1..Len(lastCall.ops) :
                       /\ ~ArrayIncludes(lastCall.ops[k].flags, "-b")
                       /\ lastCall.ops[k].ref # config.branch

\* the last client call was a cloneRepo call that took the clone path
ClonePathTaken == api.fn = "cloneRepo" /\ lastCall.path = "clone"

\* the operations of the last call that set the sparse-checkout paths
SparseSets == SelectSeq(lastCall.ops, LAMBDA o : o.op = "sparse-checkout set")

(* C23: a clone sets the sparse-checkout paths, to exactly the descriptor's
   paths, if and only if the descriptor has a non-empty sparse list.  A
   descriptor with no sparse list or an empty one is cloned as a full tree:
   no sparse-checkout operation and no sparse or blob-filter flag. *)
C23_SparseIffPaths ==
    ClonePathTaken =>
        LET config == lastCall.config
            sparse == config.sparse # UndefinedArray /\ Len(config.sparse) > 0
            clones == SelectSeq(lastCall.ops, LAMBDA o : o.op = "clone")
        IN /\ Len(clones) = 1
           /\ \A k \in 1..Len(SparseSets) : SparseSets[k].paths = config.sparse
           /\ Len(SparseSets) <= 1
           /\ lastCall.end = "ok" => (Len(SparseSets) = 1 <=> sparse)
           /\ sparse =>
                 /\ ArrayIncludes(clones[1].flags, "--sparse")
                 /\ ArrayIncludes(clones[1].flags, "--filter=blob:none")
           /\ ~sparse =>
                 /\ SparseSets = <<>>
                 /\ \A k \in 1..Len(lastCall.ops) :
                       /\ ~ArrayIncludes(lastCall.ops[k].flags, "--sparse")
                       /\ ~ArrayIncludes(lastCall.ops[k].flags, "--filter=blob:none")

\* a descriptor with an empty sparse list, cloned as a full tree at its tag
C23_Witness ==
    /\ ClonePathTaken
    /\ lastCall.end = "ok"
    /\ lastCall.config.sparse = <<>>
    /\ SparseSets = <<>>
    /\ lastCall.ops[Len(lastCall.ops)].op = "checkout"

-----------------------------------------------------------------------------
(* Properties of the status operation *)

(* C24: no caller-facing operation raises to its caller, whatever fails
   underneath; in particular a status call whose commit-log query fails
   returns a value. *)
C24_StatusNeverRaises ==
    api.fn = "getStatus" => api.rec.end = "ok"

-----------------------------------------------------------------------------
(* Properties of the search tools *)

\* a configured repository is cloned
AnyCloned == \E n \in RepoNames : isRepoCloned(disk, n)

\* the precondition of the tool call recorded in api
ToolPrecondition ==
    CASE api.fn = "searchAztecCode" ->
             /\ Truthy(api.rec.options.repo) => isRepoCloned(disk, api.rec.options.repo)
             /\ AnyCloned
      [] api.fn = "searchAztecDocs" -> isRepoCloned(disk, NAME_AZTEC_PACKAGES)
      [] api.fn = "listAztecExamples" -> AnyCloned
      [] OTHER -> TRUE

\* what the tool call recorded in api found
ToolFound == IF api.fn = "listAztecExamples" THEN api.rec.out.examples ELSE api.rec.out.results

(* C25: searchAztecCode, searchAztecDocs and listAztecExamples return
   success=false with nothing found, and make no call to the search utility,
   when their precondition fails (the named repository is not cloned or no
   configured repository is cloned; aztec-packages is not cloned; no
   configured repository is cloned); when it holds they make the call and
   return success=true with what it found, even when that is nothing. *)
C25_PreconditionInBand ==
    api.fn \in {"searchAztecCode", "searchAztecDocs", "listAztecExamples"} =>
        /\ ~ToolPrecondition =>
              /\ api.rec.out.success = FALSE
              /\ ToolFound = <<>>
              /\ api.rec.out.search = None
        /\ ToolPrecondition =>
              /\ api.rec.out.success = TRUE
              /\ api.rec.out.search # None
              /\ api.fn = "searchAztecCode" =>
                    ToolFound = searchCode(disk, api.rec.env, api.rec.options.query,
                                           api.rec.out.search).results
              /\ api.fn = "listAztecExamples" =>
                    ToolFound = listExamples(disk, api.rec.env, api.rec.options.category)

\* a code search in a cloned repository that finds nothing and succeeds
C25_Witness ==
    /\ api.fn = "searchAztecCode"
    /\ api.rec.options.repo = NAME_AZTEC_EXAMPLES
    /\ isRepoCloned(disk, NAME_AZTEC_EXAMPLES)
    /\ api.rec.out.success = TRUE
    /\ api.rec.out.results = <<>>

\* the files of the mirror at the path a read call resolves: the path as
\* given when it is absolute, below the mirror root when it is relative
FilesAt(path) ==
    LET fullPath == IF path[1] = "/" THEN path ELSE REPOS_DIR \o <<"/">> \o path
    IN { k \in 1..Len(RepoContent) :
           /\ isRepoCloned(disk, RepoContent[k].repo)
           /\ AbsolutePath(RepoContent[k]) = fullPath }

\* the text of a file: its lines, each ended by a line feed
TextOf(k) ==
    Concat([i \in 1..Len(RepoContent[k].lines) |-> RepoContent[k].lines[i] \o <<"\n">>])

(* C26: readRepoFile(path) returns success=true with the content of the
   file for every path at which a readable file exists, whatever the
   content, and success=false for every other path; a relative path is
   resolved against the mirror root and an absolute path is read as given. *)
C26_ReadSucceedsIffFileExists ==
    api.fn = "readRepoFile" =>
        /\ FilesAt(api.rec.options.path) = {} => api.rec.out.success = FALSE
        /\ \A k \in FilesAt(api.rec.options.path) :
              /\ api.rec.out.success = TRUE
              /\ api.rec.out.content = TextOf(k)

-----------------------------------------------------------------------------
(* Properties of the order of the steps of one sync *)

\* the caller's filter leaves aztec-packages in
PrimaryWanted ==
    \E i \in 1..Len(sync.reposToSync) : sync.reposToSync[i].name = NAME_AZTEC_PACKAGES

(* C27: within one syncRepos call the steps are strictly sequential: the
   pin lookup starts only when the materialization of aztec-packages, if it
   is wanted, has finished, with success or with failure, and nothing else
   has been materialized; a companion is materialized only after the pin
   lookup has returned; every materialization started has finished and
   left its entry before the next step starts. *)
C27_SequentialSync ==
    /\ sync.pc = "aztec" => PrimaryWanted /\ sync.calls = <<>>
    /\ sync.pc = "pin" =>
          IF PrimaryWanted
          THEN /\ Len(sync.calls) = 1
               /\ sync.calls[1].name = NAME_AZTEC_PACKAGES
               /\ sync.calls[1].end \in {"ok", "failed", "threw"}
          ELSE sync.calls = <<>>
    /\ \A k \in 1..Len(sync.calls) :
          sync.calls[k].name # NAME_AZTEC_PACKAGES =>
              /\ sync.pc \in {"noir", "other", "return", "idle"}
              /\ PrimaryWanted => k > 1 /\ sync.calls[1].name = NAME_AZTEC_PACKAGES
    /\ Len(sync.results) = Len(sync.calls)

\* the materialization of aztec-packages has failed, the pin lookup has
\* returned, and noir has been materialized after it
C27_Witness ==
    /\ sync.pc \in {"noir", "other"}
    /\ Len(sync.calls) = 2
    /\ sync.calls[1] = [name |-> NAME_AZTEC_PACKAGES, end |-> "threw"]
    /\ sync.calls[2].name = NAME_NOIR

-----------------------------------------------------------------------------
(* Properties of what a materialization leaves alone *)

(* C28: a materialization changes nothing but the checkout of the
   repository it is called for, so the checkouts a batch has completed stay
   as they are whatever happens later in the batch and wherever it stops;
   and a materialization that fails cleans nothing up: it removes nothing
   once a VCS step has been issued, and the checkout its successful steps
   built, or the one it found and did not re-clone, is still there. *)
C28_Frame ==
    /\ [][ \A n \in RepoNames :
              disk'[n] # disk[n] =>
                  /\ Len(sync'.calls) = Len(sync.calls) + 1
                  /\ sync'.calls[Len(sync'.calls)].name = n
                  /\ lastCall'.config.name = n ]_vars
    /\ [](lastCall # None /\ lastCall.end # "ok" =>
            /\ \A k \in 2..Len(lastCall.ops) : lastCall.ops[k].op # "rmSync"
            /\ (Len(VcsOps) >= 2 \/ (lastCall.hadDir /\ ~Issued(lastCall, "rmSync"))) =>
                  disk[lastCall.config.name].dir)

\* the second materialization of a batch has failed after its clone step:
\* its partial checkout and the checkout completed before it are in place
C28_Witness ==
    /\ sync.pc # "idle"
    /\ Len(sync.calls) = 2
    /\ sync.calls[1].end = "ok"
    /\ sync.calls[2].end = "threw"
    /\ sync.calls[1].name # sync.calls[2].name
    /\ disk[sync.calls[1].name].git
    /\ lastCall.path = "clone"
    /\ ~lastCall.hadDir
    /\ Len(VcsOps) >= 2
    /\ disk[lastCall.config.name].dir

-----------------------------------------------------------------------------
(* Properties of a clone that fails part-way *)

\* the entry of repository n in the value a status call returned
StatusOf(n) ==
    api.rec.value.repos[CHOOSE k \in 1..Len(api.rec.value.repos) :
                           api.rec.value.repos[k].name = n]

(* C30: a clone that fails part-way does not leave the repository cloned:
   the status taken after it does not report the repository as cloned, and
   the next cloneRepo call for it without force takes the clone path again,
   not the update path. *)
C30_FailedCloneIsNotCloned ==
    /\ (/\ api.fn = "getStatus" /\ api.rec.end = "ok"
        /\ lastCall # None /\ lastCall.path = "clone" /\ lastCall.end = "threw") =>
           ~StatusOf(lastCall.config.name).cloned
    /\ (/\ api.fn = "cloneRepo" /\ api.n = 2
        /\ prevCall # None /\ prevCall.path = "clone" /\ prevCall.end = "threw"
        /\ lastCall.config.name = prevCall.config.name
        /\ ~lastCall.force) =>
           lastCall.path = "clone"

-----------------------------------------------------------------------------
(* Properties of overlapping sync requests *)

(* C29: when two sync requests are handled at overlapping times, no two
   materializations work on the same checkout path at the same time: while
   a clone or update of a repository is in progress for one request, no
   other request removes, clones or updates that repository. *)
C29_OnePathOneMaterialization ==
    \A r1, r2 \in 1..OverlapRequests :
        (/\ r1 # r2
         /\ sync[r1].cur # None
         /\ sync[r2].cur # None) =>
            sync[r1].cur.config.name # sync[r2].cur.config.name

====
